---- MODULE Spec2Model ----
(***************************************************************************)
(* A model of fast-tts-cli (src/src/main.rs): the command-line run (main), *)
(* the bulk batch driver (run_bulk_from_config), the primary-provider      *)
(* synthesis call (synthesize_to_wav), credential resolution               *)
(* (fetch_access_token and its two token flows) and the output-extension   *)
(* check (validate_output_extension).                                      *)
(*                                                                         *)
(* Strings the program inspects (paths, encoding names, gender names, the  *)
(* override token) are sequences of one-character strings, so that         *)
(* trimming, case conversion, path splitting and formatting are computed   *)
(* as the code computes them.  Strings the program only passes along       *)
(* (language codes, voice names, texts) are TLA+ strings.                  *)
(* Option<T> is a sequence of length at most one.  f32 values are written  *)
(* in tenths (10 is 1.0).                                                  *)
(***************************************************************************)
EXTENDS Integers, Sequences, FiniteSets, TLC

VARIABLES
    build,    \* the cargo features the binary was built with (cfg(feature))
    args,     \* the parsed command line (struct Cli)
    env,      \* the process environment (std::env::var)
    cfg,      \* the parsed bulk configuration (struct BulkConfig)
    pc,       \* position of the run in main / run_bulk_from_config / synthesize_to_wav
    idx,      \* 0-based index of the bulk item being processed (enumerate)
    call,     \* arguments of the synthesis call in progress
    token,    \* Option: the bearer token fetch_access_token returned
    resp,     \* Option: the provider's answer to the synthesis request
    files,    \* the file system: path -> contents, for the files that exist
    dirs,     \* the file system: the directories that exist
    log,      \* history: the externally visible actions of the run, in order
    stdout,   \* the lines printed to standard output
    result    \* Option: how the run (or the function under check) ended

vars == <<build, args, env, cfg, pc, idx, call, token, resp, files, dirs, log, stdout, result>>

----------------------------------------------------------------------------
(* Option<T> *)

None == <<>>
Some(v) == <<v>>
IsSome(o) == o # <<>>
Unwrap(o) == o[1]
\* Option::or
Or(a, b) == IF IsSome(a) THEN a ELSE b
\* Option::unwrap_or
UnwrapOr(o, d) == IF IsSome(o) THEN o[1] ELSE d

(* Result<T> *)
Ok(v) == [ok |-> TRUE, value |-> v]
Err(e) == [ok |-> FALSE, error |-> e]

----------------------------------------------------------------------------
(* Character-level string functions (str::trim, to_uppercase, to_lowercase) *)

LowerChars == <<"a","b","c","d","e","f","g","h","i","j","k","l","m",
                "n","o","p","q","r","s","t","u","v","w","x","y","z">>
UpperChars == <<"A","B","C","D","E","F","G","H","I","J","K","L","M",
                "N","O","P","Q","R","S","T","U","V","W","X","Y","Z">>
WhiteChars == {" ", "\t", "\n"}

UpperChar(c) ==
    IF \E i \in 1..Len(LowerChars) : LowerChars[i] = c
    THEN UpperChars[CHOOSE i \in 1..Len(LowerChars) : LowerChars[i] = c]
    ELSE c
LowerChar(c) ==
    IF \E i \in 1..Len(UpperChars) : UpperChars[i] = c
    THEN LowerChars[CHOOSE i \in 1..Len(UpperChars) : UpperChars[i] = c]
    ELSE c

to_uppercase(s) == [i \in 1..Len(s) |-> UpperChar(s[i])]
to_lowercase(s) == [i \in 1..Len(s) |-> LowerChar(s[i])]

RECURSIVE trim_start(_)
trim_start(s) ==
    IF s # <<>> /\ Head(s) \in WhiteChars THEN trim_start(Tail(s)) ELSE s
RECURSIVE trim_end(_)
trim_end(s) ==
    IF s # <<>> /\ s[Len(s)] \in WhiteChars
    THEN trim_end(SubSeq(s, 1, Len(s) - 1)) ELSE s
trim(s) == trim_end(trim_start(s))

\* format!("{}", n) for an unsigned integer
DigitChars == <<"0","1","2","3","4","5","6","7","8","9">>
RECURSIVE Decimal(_)
Decimal(n) ==
    IF n < 10 THEN <<DigitChars[n + 1]>>
    ELSE Decimal(n \div 10) \o <<DigitChars[(n % 10) + 1]>>

----------------------------------------------------------------------------
(* std::path *)

\* The pieces of a path between separators.
RECURSIVE SplitOn(_, _)
SplitOn(s, sep) ==
    IF \E i \in 1..Len(s) : s[i] = sep
    THEN LET i == CHOOSE j \in 1..Len(s) :
                      s[j] = sep /\ \A k \in 1..(j - 1) : s[k] # sep
         IN <<SubSeq(s, 1, i - 1)>> \o SplitOn(SubSeq(s, i + 1, Len(s)), sep)
    ELSE <<s>>

\* Path::components, without the root: empty pieces and "." are skipped.
Components(path) ==
    SelectSeq(SplitOn(path, "/"), LAMBDA c : c # <<>> /\ c # <<".">>)

\* Path::file_name: the last component, unless it is "..".
file_name(path) ==
    LET cs == Components(path)
    IN IF cs = <<>> \/ cs[Len(cs)] = <<".", ".">> THEN None
       ELSE Some(cs[Len(cs)])

\* Path::extension: what follows the last dot of the file name; none when the
\* name has no dot or its only dot is the first character.
extension(path) ==
    LET f == file_name(path)
    IN IF ~IsSome(f) THEN None
       ELSE LET n == Unwrap(f)
                dots == {i \in 1..Len(n) : n[i] = "."}
            IN IF dots = {} THEN None
               ELSE LET d == CHOOSE i \in dots : \A j \in dots : j <= i
                    IN IF d = 1 THEN None
                       ELSE Some(SubSeq(n, d + 1, Len(n)))

\* Path::parent: the path without its final component.
parent(path) ==
    LET isSep(i) == path[i] = "/"
        \* end of the last component, trailing separators dropped
        e == IF \E i \in 1..Len(path) : ~isSep(i)
             THEN CHOOSE i \in 1..Len(path) :
                      ~isSep(i) /\ \A j \in (i + 1)..Len(path) : isSep(j)
             ELSE 0
        seps == {i \in 1..e : isSep(i)}
    IN IF e = 0 THEN None
       ELSE IF seps = {} THEN Some(<<>>)
       ELSE LET s == CHOOSE i \in seps : \A j \in seps : j <= i
                \* separators before the last component are dropped too
                b == IF \E i \in 1..s : ~isSep(i)
                     THEN CHOOSE i \in 1..s :
                              ~isSep(i) /\ \A j \in (i + 1)..s : isSep(j)
                     ELSE 1
            IN Some(SubSeq(path, 1, b))

\* PathBuf::join with a relative second path.
join(dir, file) ==
    IF dir = <<>> THEN file
    ELSE IF dir[Len(dir)] = "/" THEN dir \o file
    ELSE dir \o <<"/">> \o file

----------------------------------------------------------------------------
(* enum AudioEncoding and the two tables of EncodingPolicy *)

AudioEncoding == {"Linear16", "Mp3", "OggOpus", "Mulaw", "Alaw"}

S_LINEAR16 == <<"L","I","N","E","A","R","1","6">>
S_MP3      == <<"M","P","3">>
S_OGG_OPUS == <<"O","G","G","_","O","P","U","S">>
S_MULAW    == <<"M","U","L","A","W">>
S_ALAW     == <<"A","L","A","W">>
S_wav      == <<"w","a","v">>
S_mp3      == <<"m","p","3">>
S_ogg      == <<"o","g","g">>
S_bin      == <<"b","i","n">>

api_str(e) ==
    CASE e = "Linear16" -> S_LINEAR16
      [] e = "Mp3"      -> S_MP3
      [] e = "OggOpus"  -> S_OGG_OPUS
      [] e = "Mulaw"    -> S_MULAW
      [] e = "Alaw"     -> S_ALAW

file_extension_swapped(e) ==
    IF e \in {"Linear16", "Mulaw"} THEN S_wav
    ELSE IF e = "Alaw" THEN S_mp3
    ELSE IF e = "Mp3" THEN S_mp3
    ELSE S_ogg

file_extension(e) ==
    IF e \in {"Linear16", "Mulaw", "Alaw"} THEN S_wav
    ELSE IF e = "Mp3" THEN S_mp3
    ELSE S_ogg

\* parse_encoding_from_str: trims, upper-cases, then matches the five names.
parse_encoding_from_str(s) ==
    LET u == to_uppercase(trim(s))
    IN CASE u = S_LINEAR16 -> Ok("Linear16")
         [] u = S_MP3      -> Ok("Mp3")
         [] u = S_OGG_OPUS -> Ok("OggOpus")
         [] u = S_MULAW    -> Ok("Mulaw")
         [] u = S_ALAW     -> Ok("Alaw")
         [] OTHER          -> Err([kind |-> "UnsupportedEncoding", name |-> u])

----------------------------------------------------------------------------
(* validate_output_extension *)

validate_output_extension_case_sensitive(output, encoding) ==
    LET want_ext == file_extension(encoding)
        ext == extension(output)
    IN IF IsSome(ext) /\ Unwrap(ext) = want_ext THEN Ok("unit")
       ELSE IF IsSome(ext)
       THEN Err([kind |-> "ExtensionMismatch", got |-> Unwrap(ext),
                 encoding |-> api_str(encoding), expected |-> want_ext])
       ELSE Err([kind |-> "ExtensionMissing",
                 encoding |-> api_str(encoding), expected |-> want_ext])

validate_output_extension(output, encoding) ==
    LET want_ext == file_extension(encoding)
        e == extension(output)
        ext == IF IsSome(e) THEN Some(to_lowercase(Unwrap(e))) ELSE None
    IN IF IsSome(ext) /\ Unwrap(ext) = want_ext THEN Ok("unit")
       ELSE IF IsSome(ext)
       THEN Err([kind |-> "ExtensionMismatch", got |-> Unwrap(ext),
                 encoding |-> api_str(encoding), expected |-> want_ext])
       ELSE Err([kind |-> "ExtensionMissing",
                 encoding |-> api_str(encoding), expected |-> want_ext])

----------------------------------------------------------------------------
(* struct BulkDefaults, struct BulkItem: the merge of run_bulk_from_config *)

S_MALE   == <<"M","A","L","E">>
S_FEMALE == <<"F","E","M","A","L","E">>

HardcodedDefaultsMp3 ==
    [language |-> Some("en-US"), voice |-> None, gender |-> None,
     rate |-> Some(10), pitch |-> Some(0), sample_rate |-> None,
     encoding |-> Some(S_MP3), volume_gain_db |-> Some(0),
     effects_profile_id |-> Some(<<>>), ssml |-> Some(FALSE),
     output_dir |-> None]

\* The struct that stands in for a missing "defaults" object.
HardcodedDefaults ==
    [language |-> Some("en-US"), voice |-> None, gender |-> None,
     rate |-> Some(10), pitch |-> Some(0), sample_rate |-> None,
     encoding |-> Some(S_LINEAR16), volume_gain_db |-> Some(0),
     effects_profile_id |-> Some(<<>>), ssml |-> Some(FALSE),
     output_dir |-> None]

\* cfg.defaults.unwrap_or(BulkDefaults { .. })
defaults_of(c) == UnwrapOr(c.defaults, HardcodedDefaults)

\* The closure mapping a gender name to enum Gender.
gender_of(g) ==
    LET u == to_uppercase(g)
    IN IF u = S_MALE THEN "Male" ELSE IF u = S_FEMALE THEN "Female" ELSE "Neutral"

effective_params_defaults_first(item, defaults) ==
    [language |-> UnwrapOr(Or(defaults.language, item.language), "en-US"),
     voice |-> Or(defaults.voice, item.voice),
     gender |-> LET g == Or(defaults.gender, item.gender)
                IN IF IsSome(g) THEN Some(gender_of(Unwrap(g))) ELSE None,
     rate |-> UnwrapOr(Or(defaults.rate, item.rate), 10),
     pitch |-> UnwrapOr(Or(defaults.pitch, item.pitch), 0),
     sample_rate |-> Or(defaults.sample_rate, item.sample_rate),
     encoding |-> UnwrapOr(Or(defaults.encoding, item.encoding), S_LINEAR16),
     volume_gain_db |-> UnwrapOr(Or(defaults.volume_gain_db, item.volume_gain_db), 0),
     effects_profile_id |->
         UnwrapOr(Or(defaults.effects_profile_id, item.effects_profile_id), <<>>),
     is_ssml |-> UnwrapOr(Or(defaults.ssml, item.ssml), FALSE)]

\* The effective values of one item: lines 683-715.
effective_params(item, defaults) ==
    [language |-> UnwrapOr(Or(item.language, defaults.language), "en-US"),
     voice |-> Or(item.voice, defaults.voice),
     gender |-> LET g == Or(item.gender, defaults.gender)
                IN IF IsSome(g) THEN Some(gender_of(Unwrap(g))) ELSE None,
     rate |-> UnwrapOr(Or(item.rate, defaults.rate), 10),
     pitch |-> UnwrapOr(Or(item.pitch, defaults.pitch), 0),
     sample_rate |-> Or(item.sample_rate, defaults.sample_rate),
     encoding |-> UnwrapOr(Or(item.encoding, defaults.encoding), S_LINEAR16),
     volume_gain_db |-> UnwrapOr(Or(item.volume_gain_db, defaults.volume_gain_db), 0),
     effects_profile_id |->
         UnwrapOr(Or(item.effects_profile_id, defaults.effects_profile_id), <<>>),
     is_ssml |-> UnwrapOr(Or(item.ssml, defaults.ssml), FALSE)]

derived_ext_wav_fallback(encoding) ==
    LET u == to_uppercase(encoding)
    IN IF u = S_MP3 THEN S_mp3
       ELSE IF u = S_OGG_OPUS THEN S_ogg
       ELSE S_wav

\* The extension table of the output-path derivation: the upper-cased (not
\* trimmed) encoding string, with "bin" for every other string.
derived_ext(encoding) ==
    LET u == to_uppercase(encoding)
    IN IF u \in {S_LINEAR16, S_MULAW, S_ALAW} THEN S_wav
       ELSE IF u = S_MP3 THEN S_mp3
       ELSE IF u = S_OGG_OPUS THEN S_ogg
       ELSE S_bin

\* format!("item_{}.{}", idx + 1, ext)
item_file_name(i, ext) ==
    <<"i","t","e","m","_">> \o Decimal(i + 1) \o <<".">> \o ext

\* The output path of the item at 0-based position i: lines 717-736.
output_path(item, defaults, i, encoding) ==
    IF IsSome(item.output) THEN Unwrap(item.output)
    ELSE IF IsSome(defaults.output_dir)
    THEN join(Unwrap(defaults.output_dir), item_file_name(i, derived_ext(encoding)))
    ELSE item_file_name(i, derived_ext(encoding))

----------------------------------------------------------------------------
(* Bounds and the inputs the runs are drawn from *)

\* The longest item list of a bulk configuration.
MaxItems == 2

P_a_wav   == <<"a",".","w","a","v">>
P_a_WAV   == <<"a",".","W","A","V">>
P_d_b_mp3 == <<"d","/","b",".","m","p","3">>
P_noext   == <<"d",".","x","/","c">>
P_c_ogg   == <<"c",".","o","g","g">>
P_out     == <<"o","u","t">>
P_out_en  == P_out \o <<"/","e","n">>
S_mp3_pad == <<" ","m","p","3"," ">>
S_flac    == <<"f","l","a","c">>
S_opus_lc == <<"o","g","g","_","o","p","u","s">>
T_tok     == <<"t","o","k">>
T_padded  == <<" ","t","k"," ">>
T_blank   == <<" ","\t">>
T_sa      == <<"s","a">>
T_adc     == <<"a","d","c">>
T_newline == <<"n","\n">>

\* (timeout_ms, retries): the defaults of the command line and two others.
Knobs == {<<30000, 2>>, <<1, 0>>, <<30000, 5>>}

\* The environment: FAST_TTS_TOKEN and GOOGLE_APPLICATION_CREDENTIALS, each
\* unset (None) or set to a Unicode string.
Envs ==
    [FAST_TTS_TOKEN : {None, Some(<<>>), Some(T_blank), Some(T_tok), Some(T_padded),
                       Some(T_newline)},
     GOOGLE_APPLICATION_CREDENTIALS : {None, Some("key.json")},
     OPENAI_API_KEY : {None}, ELEVENLABS_API_KEY : {None}, DEEPGRAM_API_KEY : {None},
     AZURE_SPEECH_KEY : {None}, AZURE_SPEECH_REGION : {None}, GEMINI_API_KEY : {None}]

\* The environments of the bulk runs: one for each flow.
BulkEnvs ==
    {e \in Envs :
        <<e.FAST_TTS_TOKEN, e.GOOGLE_APPLICATION_CREDENTIALS>>
            \in {<<Some(T_padded), None>>, <<None, Some("key.json")>>, <<Some(T_blank), None>>}}

\* The environments of the runs with a secondary provider: the primary
\* provider's token is there; the adapters' own variables are all set, all
\* unset, or only the first of the two Azure needs.
SecondaryEnvs ==
    {[FAST_TTS_TOKEN |-> Some(T_tok), GOOGLE_APPLICATION_CREDENTIALS |-> None,
      OPENAI_API_KEY |-> k[1], ELEVENLABS_API_KEY |-> k[1], DEEPGRAM_API_KEY |-> k[1],
      AZURE_SPEECH_KEY |-> k[2], AZURE_SPEECH_REGION |-> k[1], GEMINI_API_KEY |-> k[1]] :
        k \in {<<None, None>>, <<None, Some("key")>>, <<Some("key"), Some("key")>>}}

NoItemFields ==
    [text |-> "hello", output |-> None, language |-> None, voice |-> None,
     gender |-> None, rate |-> None, pitch |-> None, sample_rate |-> None,
     encoding |-> None, volume_gain_db |-> None, effects_profile_id |-> None,
     ssml |-> None]

NoDefaultsFields ==
    [language |-> None, voice |-> None, gender |-> None, rate |-> None,
     pitch |-> None, sample_rate |-> None, encoding |-> None,
     volume_gain_db |-> None, effects_profile_id |-> None, ssml |-> None,
     output_dir |-> None]

\* The items of the bulk runs: they differ in encoding and output path.
RunItems ==
    {[NoItemFields EXCEPT !.encoding = e, !.output = o] :
        e \in {None, Some(S_mp3), Some(S_mp3_pad), Some(S_flac)},
        o \in {None, Some(P_d_b_mp3)}}

RunDefaults ==
    {None,
     Some(NoDefaultsFields),
     Some([NoDefaultsFields EXCEPT !.output_dir = Some(P_out_en),
                                   !.encoding = Some(S_opus_lc)])}

RECURSIVE SeqsUpTo(_, _)
SeqsUpTo(S, n) ==
    IF n = 0 THEN {<<>>}
    ELSE LET shorter == SeqsUpTo(S, n - 1)
         IN shorter \cup {Append(q, x) : q \in shorter, x \in S}

NoConfig == [defaults |-> None, items |-> <<>>]

Providers == {"Google", "Hume", "Listnr", "Murf"}

BaseArgs ==
    [text |-> Some("hello"), output |-> Some(P_a_wav), language |-> "en-US",
     voice |-> None, gender |-> None, rate |-> 10, pitch |-> 0,
     sample_rate |-> None, encoding |-> "Linear16", volume_gain_db |-> 0,
     effects_profile_id |-> <<>>, ssml |-> FALSE, config_path |-> None,
     provider |-> "Google", list_voices |-> FALSE, json_output |-> FALSE,
     timeout_ms |-> 30000, retries |-> 2, mcp_mode |-> None]

SingleArgs ==
    {[BaseArgs EXCEPT !.text = t, !.output = o, !.encoding = e, !.provider = p,
                      !.timeout_ms = k[1], !.retries = k[2]] :
        t \in {None, Some("hello")},
        o \in {None, Some(P_a_wav), Some(P_a_WAV), Some(P_d_b_mp3), Some(P_noext)},
        e \in AudioEncoding, p \in Providers, k \in Knobs}

BulkArgs ==
    {[BaseArgs EXCEPT !.config_path = Some("tts.yaml"),
                      !.timeout_ms = k[1], !.retries = k[2]] :
        k \in {<<30000, 2>>, <<1, 0>>}}
    \cup {[BaseArgs EXCEPT !.config_path = Some("tts.yaml"), !.provider = "Murf",
                           !.list_voices = TRUE, !.text = None, !.output = None]}

VoicesArgs ==
    {[BaseArgs EXCEPT !.list_voices = TRUE, !.text = t,
                      !.output = IF t = None THEN None ELSE Some(P_a_wav),
                      !.json_output = j] :
        t \in {None, Some("hello")}, j \in BOOLEAN}

\* The providers that have an adapter besides the primary one; Polly's is
\* compiled only with the feature polly.
SecondaryProviders == {"Openai", "Elevenlabs", "Deepgram", "Azure", "Gemini", "Polly"}

\* Single-shot runs with a secondary provider: the output path fitting the
\* encoding, and two encodings with a path that does not fit.
SecondaryArgs ==
    {[BaseArgs EXCEPT !.provider = p, !.encoding = e, !.sample_rate = sr,
                      !.output = IF e = "Mp3" THEN Some(P_d_b_mp3)
                                 ELSE IF e = "OggOpus" THEN Some(P_c_ogg)
                                 ELSE Some(P_a_wav)] :
        p \in SecondaryProviders, e \in AudioEncoding, sr \in {None, Some(48000)}}
    \cup {[BaseArgs EXCEPT !.provider = p, !.encoding = e,
                           !.output = IF e = "Mp3" THEN Some(P_a_wav) ELSE Some(P_d_b_mp3)] :
            p \in SecondaryProviders, e \in {"Mp3", "Mulaw"}}

McpArgs ==
    {[BaseArgs EXCEPT !.mcp_mode = Some("Stdio"), !.config_path = c, !.list_voices = l] :
        c \in {None, Some("tts.yaml")}, l \in BOOLEAN}

----------------------------------------------------------------------------
(* The run *)

\* The directories create_dir_all makes for a path, outermost first.
AncestorChainParentOnly(p) == <<p>>

RECURSIVE AncestorChain(_)
AncestorChain(p) ==
    LET up == parent(p)
    IN IF IsSome(up) /\ Unwrap(up) # <<>> /\ Unwrap(up) # p
       THEN Append(AncestorChain(Unwrap(up)), p)
       ELSE <<p>>

\* What may be at the output path before the run: nothing, or a file in its
\* directory.
OldFiles(path) == {<<>>, [q \in {path} |-> <<7>>]}

DirsOf(path) ==
    LET par == parent(path)
    IN IF IsSome(par) /\ Unwrap(par) # <<>>
       THEN {AncestorChain(Unwrap(par))[i] : i \in 1..Len(AncestorChain(Unwrap(par)))}
       ELSE {}

\* A feature matters only to the runs that reach the code it guards: the
\* other runs are drawn with the default build.
Init ==
    /\ \/ /\ args \in SingleArgs \cup VoicesArgs
          /\ env \in Envs
          /\ cfg = NoConfig
          /\ build = {}
          /\ files = <<>>
       \/ /\ args \in McpArgs
          /\ env \in Envs
          /\ cfg = NoConfig
          /\ build \in {{}, {"mcp"}}
          /\ files = <<>>
       \/ /\ args \in SecondaryArgs
          /\ env \in SecondaryEnvs
          /\ cfg = NoConfig
          /\ build \in IF args.provider = "Polly" THEN {{}, {"polly"}} ELSE {{}}
          /\ files \in OldFiles(Unwrap(args.output))
       \/ /\ args \in BulkArgs
          /\ env \in BulkEnvs
          /\ cfg \in [defaults : RunDefaults, items : SeqsUpTo(RunItems, MaxItems)]
          /\ build = {}
          /\ files = <<>>
    /\ dirs = UNION {DirsOf(q) : q \in DOMAIN files}
    /\ pc = "main"
    /\ idx = 0
    /\ call = None
    /\ token = None
    /\ resp = None
    /\ log = <<>>
    /\ stdout = <<>>
    /\ result = None

FailKeepGoing(e) ==
    /\ pc' = IF call # None /\ call.ret = "bulk" THEN "bulk_print" ELSE "done"
    /\ result' = Some(Err(e))

\* `?` and bail!: the error leaves main, the process exits with a failure status.
Fail(e) ==
    /\ pc' = "done"
    /\ result' = Some(Err(e))

Event(kind, fields) == [kind |-> kind, item |-> IF call = None THEN 0 ELSE call.item] @@ fields

MainModeVoicesFirst ==
    /\ pc = "main"
    /\ IF IsSome(args.mcp_mode) THEN pc' = "mcp"
       ELSE IF args.list_voices THEN pc' = "voices"
       ELSE IF IsSome(args.config_path) THEN pc' = "bulk_load"
       ELSE pc' = "single"
    /\ UNCHANGED <<build, args, env, cfg, idx, call, token, resp, files, dirs, log, stdout, result>>

\* main, lines 489-511: the mode of the run.
MainMode ==
    /\ pc = "main"
    /\ IF IsSome(args.mcp_mode) THEN pc' = "mcp"
       ELSE IF IsSome(args.config_path) THEN pc' = "bulk_load"
       ELSE IF args.list_voices THEN pc' = "voices"
       ELSE pc' = "single"
    /\ UNCHANGED <<build, args, env, cfg, idx, call, token, resp, files, dirs, log, stdout, result>>

\* main, lines 490-501: the server is a collaborator outside this model; a
\* binary built without the feature refuses.
MainMcp ==
    /\ pc = "mcp"
    /\ IF "mcp" \in build
       THEN /\ pc' = "done"
            /\ result' = Some(Ok("server"))
       ELSE Fail([kind |-> "BuiltWithoutMcp"])
    /\ UNCHANGED <<build, args, env, cfg, idx, call, token, resp, files, dirs, log, stdout>>

----------------------------------------------------------------------------
(* fetch_access_token and its two flows *)

\* What the caller of fetch_access_token does next with the token.
AfterToken == IF call.ret = "voices" THEN "voices_get" ELSE "synth_request"

TokenOk(t) ==
    /\ token' = Some(t)
    /\ pc' = AfterToken
    /\ UNCHANGED result

override_token_trimmed(v) ==
    IF IsSome(v) /\ trim(Unwrap(v)) # <<>> THEN Some(trim(Unwrap(v))) ELSE None

\* Lines 1188-1192: the override token, when it is set and not blank.
override_token(v) ==
    IF IsSome(v) /\ trim(Unwrap(v)) # <<>> THEN Some(Unwrap(v)) ELSE None

\* fetch_access_token, lines 1187-1200: the choice of the flow.
FetchAccessToken ==
    /\ pc = "token"
    /\ log' = Append(log, Event("fetch_access_token", <<>>))
    /\ LET o == override_token(env.FAST_TTS_TOKEN)
       IN IF IsSome(o) THEN TokenOk(Unwrap(o))
          ELSE /\ pc' = IF IsSome(env.GOOGLE_APPLICATION_CREDENTIALS)
                        THEN "sa_read" ELSE "adc_path"
               /\ UNCHANGED <<token, result>>
    /\ UNCHANGED <<build, args, env, cfg, idx, call, resp, files, dirs, stdout>>

SaFailedFallsThrough(e) ==
    /\ pc' = "adc_path"
    /\ UNCHANGED result

\* Line 1197: the service-account flow's result is the result of the fetch.
SaFailed(e) == Fail(e)

\* What a service-account key file may hold.
KeyFiles ==
    {[parses |-> FALSE],
     [parses |-> TRUE, client_email |-> "sa@p.iam", rsa_ok |-> TRUE, token_uri |-> None],
     [parses |-> TRUE, client_email |-> "sa@p.iam", rsa_ok |-> TRUE,
      token_uri |-> Some("https://sts.example/token")],
     [parses |-> TRUE, client_email |-> "sa@p.iam", rsa_ok |-> FALSE, token_uri |-> None]}

\* What SystemTime::now() may read, in seconds since the epoch; the sums below
\* stay far from the width of usize.
Clock == {0, 1762264800}

\* Lines 1228-1230: the key's token_uri, or the standard endpoint.
token_uri_of(key) == UnwrapOr(key.token_uri, "https://oauth2.googleapis.com/token")

jwt_claims_short_lived(key, now) ==
    [iss |-> key.client_email,
     scope |-> "https://www.googleapis.com/auth/cloud-platform",
     aud |-> token_uri_of(key),
     exp |-> now + 60,
     iat |-> now]

\* Lines 1237-1252: the claims.
jwt_claims(key, now) ==
    [iss |-> key.client_email,
     scope |-> "https://www.googleapis.com/auth/cloud-platform",
     aud |-> token_uri_of(key),
     exp |-> now + 3600,
     iat |-> now]

\* Lines 1254-1255: the header.
jwt_header == [alg |-> "RS256", typ |-> "JWT"]

\* What a token endpoint may answer.
TokenResponses(t) ==
    {[status |-> 200, access_token |-> Some(t)],
     [status |-> 200, access_token |-> None],
     [status |-> 401, access_token |-> None]}

\* fetch_token_from_service_account, lines 1223-1225: read and parse the key.
SaRead ==
    /\ pc = "sa_read"
    /\ log' = Append(log, Event("read_key", [path |-> Unwrap(env.GOOGLE_APPLICATION_CREDENTIALS)]))
    /\ \/ /\ SaFailed([kind |-> "KeyUnreadable"])
          /\ UNCHANGED resp
       \/ \E k \in KeyFiles :
            IF k.parses
            THEN /\ resp' = Some(k)
                 /\ pc' = "sa_sign"
                 /\ UNCHANGED result
            ELSE /\ SaFailed([kind |-> "KeyUnparsable"])
                 /\ UNCHANGED resp
    /\ UNCHANGED <<build, args, env, cfg, idx, call, token, files, dirs, stdout>>

\* Lines 1227-1259: the claims and the signature.
SaSign ==
    /\ pc = "sa_sign"
    /\ \E now \in Clock :
         LET key == Unwrap(resp)
         IN IF key.rsa_ok
            THEN /\ resp' = Some(key @@ [jwt |-> [header |-> jwt_header,
                                                  claims |-> jwt_claims(key, now)]])
                 /\ pc' = "sa_post"
                 /\ UNCHANGED result
            ELSE /\ SaFailed([kind |-> "InvalidRsaKey"])
                 /\ UNCHANGED resp
    /\ UNCHANGED <<build, args, env, cfg, idx, call, token, files, dirs, log, stdout>>

\* Lines 1261-1269: the JWT-bearer grant is posted to the token endpoint; the
\* answer is kept with the request it answers.
SaPost ==
    /\ pc = "sa_post"
    /\ log' = Append(log, Event("token_post", [grant |-> "jwt-bearer"]))
    /\ \/ /\ SaFailed([kind |-> "Transport"])
          /\ UNCHANGED resp
       \/ \E r \in TokenResponses(T_sa) :
            /\ resp' = Some(r @@ [url |-> token_uri_of(Unwrap(resp)),
                                  assertion |-> Unwrap(resp).jwt])
            /\ pc' = "sa_resp"
            /\ UNCHANGED result
    /\ UNCHANGED <<build, args, env, cfg, idx, call, token, files, dirs, stdout>>

\* Lines 1270-1276: error_for_status, then the access_token of the answer.
SaResp ==
    /\ pc = "sa_resp"
    /\ LET r == Unwrap(resp)
       IN IF r.status # 200 THEN SaFailed([kind |-> "HttpStatus", status |-> r.status]) /\ UNCHANGED token
          ELSE IF ~IsSome(r.access_token) THEN SaFailed([kind |-> "Json"]) /\ UNCHANGED token
          ELSE TokenOk(Unwrap(r.access_token))
    /\ UNCHANGED <<build, args, env, cfg, idx, call, resp, files, dirs, log, stdout>>

NoCredentials == [kind |-> "NoCredentials"]

AdcFailedPropagates(e) == Fail(e)

\* Lines 1202-1210: an error of the refresh flow is dropped; the fetch ends
\* with the guidance message.
AdcFailed(e) == Fail(NoCredentials)

\* Lines 1200-1201 and default_adc_path: the file is tried only if there is a
\* home directory and the file exists.
AdcPath ==
    /\ pc = "adc_path"
    /\ \/ /\ Fail(NoCredentials)
          /\ UNCHANGED log
       \/ /\ log' = Append(log, Event("adc_exists", [found |-> FALSE]))
          /\ Fail(NoCredentials)
       \/ /\ log' = Append(log, Event("adc_exists", [found |-> TRUE]))
          /\ pc' = "adc_read"
          /\ UNCHANGED result
    /\ UNCHANGED <<build, args, env, cfg, idx, call, token, resp, files, dirs, stdout>>

\* fetch_token_from_adc, lines 1292-1302: read and parse the file.
AdcRead ==
    /\ pc = "adc_read"
    /\ log' = Append(log, Event("read_adc", <<>>))
    /\ \/ AdcFailed([kind |-> "AdcUnreadable"])
       \/ AdcFailed([kind |-> "AdcUnparsable"])
       \/ /\ pc' = "adc_post"
          /\ UNCHANGED result
    /\ UNCHANGED <<build, args, env, cfg, idx, call, token, resp, files, dirs, stdout>>

\* Lines 1304-1314: the refresh-token grant is posted.
AdcPost ==
    /\ pc = "adc_post"
    /\ log' = Append(log, Event("token_post", [grant |-> "refresh_token"]))
    /\ \/ /\ AdcFailed([kind |-> "Transport"])
          /\ UNCHANGED resp
       \/ \E r \in TokenResponses(T_adc) :
            /\ resp' = Some(r)
            /\ pc' = "adc_resp"
            /\ UNCHANGED result
    /\ UNCHANGED <<build, args, env, cfg, idx, call, token, files, dirs, stdout>>

\* Lines 1315-1321.
AdcResp ==
    /\ pc = "adc_resp"
    /\ LET r == Unwrap(resp)
       IN IF r.status # 200 THEN AdcFailed([kind |-> "HttpStatus", status |-> r.status]) /\ UNCHANGED token
          ELSE IF ~IsSome(r.access_token) THEN AdcFailed([kind |-> "Json"]) /\ UNCHANGED token
          ELSE TokenOk(Unwrap(r.access_token))
    /\ UNCHANGED <<build, args, env, cfg, idx, call, resp, files, dirs, log, stdout>>

----------------------------------------------------------------------------
(* base64::engine::general_purpose::STANDARD.decode *)

B64Chars ==
    UpperChars \o LowerChars \o DigitChars \o <<"+", "/">>

IsB64(c) == \E i \in 1..Len(B64Chars) : B64Chars[i] = c
B64Val(c) == (CHOOSE i \in 1..Len(B64Chars) : B64Chars[i] = c) - 1

\* Canonical padded base64: groups of four characters; only the last group
\* may end in one or two "=", and its unused low bits must be zero.
RECURSIVE base64_decode(_)
base64_decode(s) ==
    IF s = <<>> THEN Ok(<<>>)
    ELSE IF Len(s) < 4 THEN Err("InvalidLength")
    ELSE LET a == s[1]
             b == s[2]
             c == s[3]
             d == s[4]
             last == Len(s) = 4
         IN IF ~IsB64(a) \/ ~IsB64(b) THEN Err("InvalidByte")
            ELSE IF c = "=" /\ d = "=" /\ last
            THEN IF B64Val(b) % 16 # 0 THEN Err("InvalidLastSymbol")
                 ELSE Ok(<<B64Val(a) * 4 + (B64Val(b) \div 16)>>)
            ELSE IF ~IsB64(c) THEN Err("InvalidByte")
            ELSE IF d = "=" /\ last
            THEN IF B64Val(c) % 4 # 0 THEN Err("InvalidLastSymbol")
                 ELSE Ok(<<B64Val(a) * 4 + (B64Val(b) \div 16),
                           (B64Val(b) % 16) * 16 + (B64Val(c) \div 4)>>)
            ELSE IF ~IsB64(d) THEN Err("InvalidByte")
            ELSE LET rest == base64_decode(SubSeq(s, 5, Len(s)))
                 IN IF ~rest.ok THEN rest
                    ELSE Ok(<<B64Val(a) * 4 + (B64Val(b) \div 16),
                              (B64Val(b) % 16) * 16 + (B64Val(c) \div 4),
                              (B64Val(c) % 4) * 64 + B64Val(d)>> \o rest.value)

----------------------------------------------------------------------------
(* synthesize_to_wav *)

CredentialStepFirstItemOnly(item) == IF item <= 1 THEN "token" ELSE "synth_request"

\* Line 1136: every call of synthesize_to_wav fetches a token of its own.
CredentialStep(item) == "token"

\* Lines 1128-1134: the parent directory is created before anything else.
SynthMkdir ==
    /\ pc = "synth_mkdir"
    /\ LET par == parent(call.output)
       IN IF IsSome(par) /\ Unwrap(par) # <<>>
          THEN LET chain == AncestorChain(Unwrap(par))
               IN /\ log' = Append(log, Event("create_dir_all", [path |-> Unwrap(par)]))
                  /\ \/ /\ dirs' = dirs \cup {chain[i] : i \in 1..Len(chain)}
                        /\ pc' = CredentialStep(call.item)
                        /\ UNCHANGED result
                     \/ \E k \in 0..(Len(chain) - 1) :
                          /\ dirs' = dirs \cup {chain[i] : i \in 1..k}
                          /\ Fail([kind |-> "CreateDir", path |-> Unwrap(par)])
          ELSE /\ pc' = CredentialStep(call.item)
               /\ UNCHANGED <<dirs, log, result>>
    /\ UNCHANGED <<build, args, env, cfg, idx, call, token, resp, files, stdout>>

\* Lines 1141-1145: the wire name of a gender.
gender_str(g) ==
    CASE g = "Neutral" -> "NEUTRAL" [] g = "Male" -> "MALE" [] g = "Female" -> "FEMALE"

\* HeaderValue: a header value holds no control character but the tab.
header_value_ok(t) == \A i \in 1..Len(t) : t[i] # "\n"

S_Bearer == <<"B","e","a","r","e","r"," ">>

authorization_trimmed(t) == S_Bearer \o trim(t)

\* Lines 788 and 1170: format!("Bearer {token}"), the Authorization header.
authorization(t) == S_Bearer \o t

synthesis_input_text_always(c) == [text |-> c.text]

\* Lines 1148-1152: the untagged SynthesisInput, one variant or the other.
synthesis_input(c) == IF c.is_ssml THEN [ssml |-> c.text] ELSE [text |-> c.text]

\* Lines 1153-1157: VoiceSelectionParams; a None is left out of the JSON.
voice_selection(c) ==
    [languageCode |-> c.language]
    @@ (IF IsSome(c.voice) THEN [name |-> Unwrap(c.voice)] ELSE <<>>)
    @@ (IF IsSome(c.gender) THEN [ssmlGender |-> gender_str(Unwrap(c.gender))] ELSE <<>>)

audio_config_effects_always(c) ==
    [audioEncoding |-> api_str(c.encoding),
     speakingRate |-> c.rate,
     pitch |-> c.pitch,
     volumeGainDb |-> c.volume_gain_db,
     effectsProfileId |-> c.effects_profile_id,
     enableLegacyWavHeader |-> FALSE]
    @@ (IF IsSome(c.sample_rate) THEN [sampleRateHertz |-> Unwrap(c.sample_rate)] ELSE <<>>)

\* Lines 1158-1166: AudioConfig; a None and an empty list are left out.
audio_config(c) ==
    [audioEncoding |-> api_str(c.encoding),
     speakingRate |-> c.rate,
     pitch |-> c.pitch,
     volumeGainDb |-> c.volume_gain_db,
     enableLegacyWavHeader |-> FALSE]
    @@ (IF IsSome(c.sample_rate) THEN [sampleRateHertz |-> Unwrap(c.sample_rate)] ELSE <<>>)
    @@ (IF c.effects_profile_id # <<>>
        THEN [effectsProfileId |-> c.effects_profile_id] ELSE <<>>)

\* Lines 1147-1167: the request body.
request_body(c) ==
    [input |-> synthesis_input(c),
     voice |-> voice_selection(c),
     audioConfig |-> audio_config(c)]

B_QQ   == <<"Q","Q","=","=">>
B_QUJD == <<"Q","U","J","D">>
B_bad  == <<"Q","R","=","=">>

\* What the provider may answer to a synthesis request: a status, the
\* audio_content field of the body if it has one, and the time the answer took.
SynthResponses ==
    {[status |-> 200, audio_content |-> Some(B_QQ), delay_ms |-> 10],
     [status |-> 200, audio_content |-> Some(B_QUJD), delay_ms |-> 60000],
     [status |-> 200, audio_content |-> Some(B_bad), delay_ms |-> 10],
     [status |-> 200, audio_content |-> None, delay_ms |-> 10],
     [status |-> 500, audio_content |-> None, delay_ms |-> 10]}

SendErrorTargetRetrying(retries) == IF retries > 0 THEN "synth_request" ELSE "done"

\* Lines 1173-1178: `?` on the send; the retry count is not read.
SendErrorTarget(retries) == "done"

\* Lines 1169-1178: the headers, then the POST to {base}/v1/text:synthesize;
\* the answer is awaited without a deadline, however long it takes.
SynthRequest ==
    /\ pc = "synth_request"
    /\ IF ~header_value_ok(authorization(Unwrap(token)))
       THEN /\ Fail([kind |-> "InvalidHeaderValue"])
            /\ UNCHANGED <<log, resp>>
       ELSE /\ log' = Append(log, Event("synthesize_post",
                        [authorization |-> authorization(Unwrap(token)),
                         body |-> request_body(call)]))
            /\ \/ /\ pc' = SendErrorTarget(call.retries)
                  /\ result' = IF pc' = "done"
                               THEN Some(Err([kind |-> "Transport"])) ELSE result
                  /\ resp' = None
               \/ \E r \in SynthResponses :
                    /\ resp' = Some(r)
                    /\ pc' = "synth_response"
                    /\ UNCHANGED result
    /\ UNCHANGED <<build, args, env, cfg, idx, call, token, files, dirs, stdout>>

\* Lines 1179-1182: error_for_status, the JSON body, the base64 decoding.
SynthResponse ==
    /\ pc = "synth_response"
    /\ LET r == Unwrap(resp)
       IN IF r.status # 200 THEN Fail([kind |-> "HttpStatus", status |-> r.status])
          ELSE IF ~IsSome(r.audio_content) THEN Fail([kind |-> "Json"])
          ELSE IF ~base64_decode(Unwrap(r.audio_content)).ok
          THEN Fail([kind |-> "Base64", error |-> base64_decode(Unwrap(r.audio_content)).error])
          ELSE /\ pc' = "synth_write"
               /\ UNCHANGED result
    /\ UNCHANGED <<build, args, env, cfg, idx, call, token, resp, files, dirs, log, stdout>>

\* Where synthesize_to_wav returns to.
AfterSynthesis == IF call.ret = "single" THEN "single_print" ELSE "bulk_print"

WriteFileWithNewline(path, bytes) ==
    files' = [q \in DOMAIN files \cup {path} |->
                 IF q = path THEN Append(bytes, 10) ELSE files[q]]

WriteFile(path, bytes) ==
    files' = [q \in DOMAIN files \cup {path} |-> IF q = path THEN bytes ELSE files[q]]

\* Line 1183: fs::write creates or truncates the file, then writes the bytes;
\* it can fail before the file is opened or after it was truncated.
SynthWrite ==
    /\ pc = "synth_write"
    /\ LET audio == base64_decode(Unwrap(Unwrap(resp).audio_content)).value
           ev(outcome) == Event("write", [path |-> call.output, bytes |-> audio,
                                          outcome |-> outcome])
       IN \/ /\ WriteFile(call.output, audio)
             /\ log' = Append(log, ev("ok"))
             /\ pc' = AfterSynthesis
             /\ UNCHANGED result
          \/ /\ UNCHANGED files
             /\ log' = Append(log, ev("not_opened"))
             /\ Fail([kind |-> "Write", path |-> call.output])
          \/ /\ WriteFile(call.output, <<>>)
             /\ log' = Append(log, ev("truncated"))
             /\ Fail([kind |-> "Write", path |-> call.output])
    /\ UNCHANGED <<build, args, env, cfg, idx, call, token, resp, dirs, stdout>>

----------------------------------------------------------------------------
(* list_voices *)

\* main, lines 508-511, and list_voices, line 783.
Voices ==
    /\ pc = "voices"
    /\ call' = [ret |-> "voices", item |-> 0]
    /\ pc' = "token"
    /\ UNCHANGED <<build, args, env, cfg, idx, token, resp, files, dirs, log, stdout, result>>

VoiceLists == {<<>>, <<"en-US-Neural2-F">>}

\* Lines 784-795: the GET to {base}/v1/voices.
VoicesGet ==
    /\ pc = "voices_get"
    /\ IF ~header_value_ok(authorization(Unwrap(token)))
       THEN /\ Fail([kind |-> "InvalidHeaderValue"])
            /\ UNCHANGED <<log, resp>>
       ELSE /\ log' = Append(log, Event("voices_get",
                        [authorization |-> authorization(Unwrap(token))]))
            /\ \/ /\ Fail([kind |-> "Transport"])
                  /\ UNCHANGED resp
               \/ \E r \in [status : {200, 500}, voices : {None} \cup {Some(v) : v \in VoiceLists}] :
                    /\ resp' = Some(r)
                    /\ pc' = "voices_response"
                    /\ UNCHANGED result
    /\ UNCHANGED <<build, args, env, cfg, idx, call, token, files, dirs, stdout>>

\* Lines 795-818: the answer is parsed and printed.
VoicesResponse ==
    /\ pc = "voices_response"
    /\ LET r == Unwrap(resp)
       IN IF r.status # 200
          THEN Fail([kind |-> "HttpStatus", status |-> r.status]) /\ UNCHANGED stdout
          ELSE IF ~IsSome(r.voices) THEN Fail([kind |-> "Json"]) /\ UNCHANGED stdout
          ELSE /\ stdout' = stdout \o
                     (IF args.json_output THEN <<[json |-> Unwrap(r.voices)]>>
                      ELSE [i \in 1..Len(Unwrap(r.voices)) |-> [voice |-> Unwrap(r.voices)[i]]])
               /\ pc' = "done"
               /\ result' = Some(Ok("unit"))
    /\ UNCHANGED <<build, args, env, cfg, idx, call, token, resp, files, dirs, log>>

----------------------------------------------------------------------------
(* The adapters of the secondary providers *)

required_vars_azure_key_only(p) ==
    CASE p = "Openai" -> <<"OPENAI_API_KEY">>
      [] p = "Elevenlabs" -> <<"ELEVENLABS_API_KEY">>
      [] p = "Deepgram" -> <<"DEEPGRAM_API_KEY">>
      [] p = "Azure" -> <<"AZURE_SPEECH_KEY">>
      [] p = "Gemini" -> <<"GEMINI_API_KEY">>
      [] p = "Polly" -> <<>>

\* The variables an adapter reads with `?`, in the order it reads them: lines
\* 849, 886-887, 934, 967, 994; synthesize_polly reads none itself.
required_vars(p) ==
    CASE p = "Openai" -> <<"OPENAI_API_KEY">>
      [] p = "Elevenlabs" -> <<"ELEVENLABS_API_KEY">>
      [] p = "Deepgram" -> <<"DEEPGRAM_API_KEY">>
      [] p = "Azure" -> <<"AZURE_SPEECH_KEY", "AZURE_SPEECH_REGION">>
      [] p = "Gemini" -> <<"GEMINI_API_KEY">>
      [] p = "Polly" -> <<>>

\* The first of the variables that is not set, if there is one.
missing_var(p, e) ==
    LET vs == required_vars(p)
        unset == {i \in 1..Len(vs) : ~IsSome(e[vs[i]])}
    IN IF unset = {} THEN None
       ELSE Some(vs[CHOOSE i \in unset : \A j \in unset : i <= j])

\* The match on the encoding in each adapter: lines 853-857, 894-902, 938,
\* 971, 1000-1010, 1097.
provider_format(p, e, sample_rate) ==
    CASE p = "Openai" ->
            Ok(IF e = "Mp3" THEN "mp3" ELSE IF e = "OggOpus" THEN "opus" ELSE "wav")
      [] p = "Elevenlabs" ->
            Ok(IF e = "Mp3" THEN "mp3" ELSE IF e = "OggOpus" THEN "ogg" ELSE "wav")
      [] p = "Deepgram" ->
            Ok(IF e = "Mp3" THEN "mp3" ELSE IF e = "OggOpus" THEN "opus" ELSE "wav")
      [] p = "Gemini" ->
            IF e = "Mp3" THEN Ok("mp3")
            ELSE IF e = "OggOpus" THEN Ok("ogg")
            ELSE IF e = "Linear16" THEN Ok("wav")
            ELSE Err([kind |-> "UnsupportedEncoding", provider |-> p,
                      encoding |-> api_str(e),
                      alternatives |-> <<S_MP3, S_OGG_OPUS, S_LINEAR16>>])
      [] p = "Azure" ->
            Ok(IF e = "Mp3"
               THEN (IF IsSome(sample_rate) THEN "audio-48khz-192kbitrate-mono-mp3"
                     ELSE "audio-24khz-160kbitrate-mono-mp3")
               ELSE IF e = "OggOpus" THEN "ogg-48khz-16bit-mono-opus"
               ELSE IF e = "Linear16"
               THEN (IF IsSome(sample_rate) /\ Unwrap(sample_rate) >= 48000
                     THEN "riff-48khz-16bit-mono-pcm" ELSE "riff-24khz-16bit-mono-pcm")
               ELSE IF e = "Mulaw" THEN "mulaw-8khz-8bit-mono"
               ELSE "alaw-8khz-8bit-mono")
      [] p = "Polly" ->
            Ok(IF e = "Mp3" THEN "Mp3" ELSE IF e = "OggOpus" THEN "OggVorbis" ELSE "Pcm")

\* The top of an adapter: its variables, then its output format.
SecondaryStart ==
    /\ pc = "secondary"
    /\ LET p == call.provider
           m == missing_var(p, env)
           f == provider_format(p, call.encoding, call.sample_rate)
       IN IF IsSome(m)
          THEN /\ Fail([kind |-> "MissingCredential", variable |-> Unwrap(m)])
               /\ UNCHANGED call
          ELSE IF ~f.ok
          THEN /\ Fail(f.error)
               /\ UNCHANGED call
          ELSE /\ call' = [call EXCEPT !.format = Some(f.value)]
               /\ pc' = "sec_request"
               /\ UNCHANGED result
    /\ UNCHANGED <<build, args, env, cfg, idx, token, resp, files, dirs, log, stdout>>

\* What a provider may answer: the audio itself, or for Gemini a JSON body
\* whose first audio part, if it has one, holds base64.
SecondaryResponses(p) ==
    IF p = "Gemini"
    THEN {[status |-> 200, data |-> Some(B_QQ)], [status |-> 200, data |-> Some(B_bad)],
          [status |-> 200, data |-> None], [status |-> 500, data |-> None]}
    ELSE {[status |-> 200, bytes |-> <<82, 73>>], [status |-> 500, bytes |-> <<>>]}

\* The one request of an adapter: lines 858-870, 909-919, 940-952, 973-980,
\* 1036-1042, 1098-1105.
SecondaryRequest ==
    /\ pc = "sec_request"
    /\ log' = Append(log, Event("provider_post",
                 [provider |-> call.provider, format |-> Unwrap(call.format),
                  text |-> call.text]))
    /\ \/ /\ Fail([kind |-> "Transport"])
          /\ UNCHANGED resp
       \/ \E r \in SecondaryResponses(call.provider) :
            /\ resp' = Some(r)
            /\ pc' = "sec_response"
            /\ UNCHANGED result
    /\ UNCHANGED <<build, args, env, cfg, idx, call, token, files, dirs, stdout>>

\* error_for_status, then the bytes of the body; for Gemini the JSON body,
\* its first audio part and the base64 decoding: lines 1067-1079.
SecondaryResponse ==
    /\ pc = "sec_response"
    /\ LET r == Unwrap(resp)
       IN IF r.status # 200
          THEN Fail([kind |-> "HttpStatus", status |-> r.status]) /\ UNCHANGED resp
          ELSE IF call.provider # "Gemini"
          THEN pc' = "sec_mkdir" /\ UNCHANGED <<resp, result>>
          ELSE IF ~IsSome(r.data)
          THEN Fail([kind |-> "NoAudioData"]) /\ UNCHANGED resp
          ELSE IF ~base64_decode(Unwrap(r.data)).ok
          THEN /\ Fail([kind |-> "Base64", error |-> base64_decode(Unwrap(r.data)).error])
               /\ UNCHANGED resp
          ELSE /\ resp' = Some([status |-> 200, bytes |-> base64_decode(Unwrap(r.data)).value])
               /\ pc' = "sec_mkdir"
               /\ UNCHANGED result
    /\ UNCHANGED <<build, args, env, cfg, idx, call, token, files, dirs, log, stdout>>

\* The parent directory is created once the audio is there: lines 873, 922,
\* 955, 983, 1081, 1107.
SecondaryMkdir ==
    /\ pc = "sec_mkdir"
    /\ LET par == parent(call.output)
       IN IF IsSome(par) /\ Unwrap(par) # <<>>
          THEN LET chain == AncestorChain(Unwrap(par))
               IN /\ log' = Append(log, Event("create_dir_all", [path |-> Unwrap(par)]))
                  /\ \/ /\ dirs' = dirs \cup {chain[i] : i \in 1..Len(chain)}
                        /\ pc' = "sec_write"
                        /\ UNCHANGED result
                     \/ \E k \in 0..(Len(chain) - 1) :
                          /\ dirs' = dirs \cup {chain[i] : i \in 1..k}
                          /\ Fail([kind |-> "CreateDir", path |-> Unwrap(par)])
          ELSE /\ pc' = "sec_write"
               /\ UNCHANGED <<dirs, log, result>>
    /\ UNCHANGED <<build, args, env, cfg, idx, call, token, resp, files, stdout>>

\* fs::write of the audio: lines 874, 923, 956, 984, 1082, 1108.
SecondaryWrite ==
    /\ pc = "sec_write"
    /\ LET audio == Unwrap(resp).bytes
           ev(outcome) == Event("write", [path |-> call.output, bytes |-> audio,
                                          outcome |-> outcome])
       IN \/ /\ WriteFile(call.output, audio)
             /\ log' = Append(log, ev("ok"))
             /\ pc' = "single_print"
             /\ UNCHANGED result
          \/ /\ UNCHANGED files
             /\ log' = Append(log, ev("not_opened"))
             /\ Fail([kind |-> "Write", path |-> call.output])
          \/ /\ WriteFile(call.output, <<>>)
             /\ log' = Append(log, ev("truncated"))
             /\ Fail([kind |-> "Write", path |-> call.output])
    /\ UNCHANGED <<build, args, env, cfg, idx, call, token, resp, dirs, stdout>>

----------------------------------------------------------------------------
(* main: the single-shot run *)

SingleValidatePrimaryOnly ==
    /\ pc = "single"
    /\ IF ~IsSome(args.text) \/ ~IsSome(args.output)
       THEN Fail([kind |-> "MissingArguments"])
       ELSE LET v == validate_output_extension(Unwrap(args.output), args.encoding)
            IN IF v.ok \/ args.provider # "Google" THEN pc' = "dispatch" /\ UNCHANGED result
               ELSE Fail(v.error)
    /\ UNCHANGED <<build, args, env, cfg, idx, call, token, resp, files, dirs, log, stdout>>

\* Lines 513-522: text and output are required, then the extension is checked.
SingleValidate ==
    /\ pc = "single"
    /\ IF ~IsSome(args.text) \/ ~IsSome(args.output)
       THEN Fail([kind |-> "MissingArguments"])
       ELSE LET v == validate_output_extension(Unwrap(args.output), args.encoding)
            IN IF v.ok THEN pc' = "dispatch" /\ UNCHANGED result
               ELSE Fail(v.error)
    /\ UNCHANGED <<build, args, env, cfg, idx, call, token, resp, files, dirs, log, stdout>>

has_adapter_polly_always(p, features) == p \in SecondaryProviders

\* The arms of the match that call an adapter: lines 548-590, and 591-595
\* under cfg(feature = "polly").
has_adapter(p, features) ==
    \/ p \in SecondaryProviders \ {"Polly"}
    \/ p = "Polly" /\ "polly" \in features

SinglePrintQuiet ==
    /\ pc = "single_print"
    /\ pc' = "done"
    /\ result' = Some(Ok("unit"))
    /\ UNCHANGED <<build, args, env, cfg, idx, call, token, resp, files, dirs, log, stdout>>

\* Lines 524-607: the provider's adapter is called.
SingleDispatch ==
    /\ pc = "dispatch"
    /\ IF args.provider = "Google"
       THEN /\ call' = [text |-> Unwrap(args.text), output |-> Unwrap(args.output),
                        language |-> args.language, voice |-> args.voice,
                        gender |-> args.gender, rate |-> args.rate, pitch |-> args.pitch,
                        sample_rate |-> args.sample_rate, encoding |-> args.encoding,
                        volume_gain_db |-> args.volume_gain_db,
                        effects_profile_id |-> args.effects_profile_id,
                        is_ssml |-> args.ssml, timeout_ms |-> args.timeout_ms,
                        retries |-> args.retries, item |-> 0, ret |-> "single"]
            /\ pc' = "synth_mkdir"
            /\ UNCHANGED result
       ELSE IF has_adapter(args.provider, build)
       THEN /\ call' = [provider |-> args.provider, text |-> Unwrap(args.text),
                        output |-> Unwrap(args.output), language |-> args.language,
                        voice |-> args.voice, encoding |-> args.encoding,
                        sample_rate |-> args.sample_rate, format |-> None,
                        item |-> 0, ret |-> "single"]
            /\ pc' = "secondary"
            /\ UNCHANGED result
       ELSE IF args.provider = "Polly"
       THEN /\ Fail([kind |-> "RequiresFeature", provider |-> "Polly", feature |-> "polly"])
            /\ UNCHANGED call
       ELSE /\ Fail([kind |-> "NotImplemented", provider |-> args.provider])
            /\ UNCHANGED call
    /\ UNCHANGED <<build, args, env, cfg, idx, token, resp, files, dirs, log, stdout>>

Wrote(path) == [wrote |-> path]

\* Lines 609-610.
SinglePrint ==
    /\ pc = "single_print"
    /\ stdout' = Append(stdout, Wrote(call.output))
    /\ pc' = "done"
    /\ result' = Some(Ok("unit"))
    /\ UNCHANGED <<build, args, env, cfg, idx, call, token, resp, files, dirs, log>>

----------------------------------------------------------------------------
(* run_bulk_from_config *)

\* Lines 654-666: the file is read and parsed; cfg is what it holds.
BulkLoad ==
    /\ pc = "bulk_load"
    /\ \/ Fail([kind |-> "ConfigUnreadable"])
       \/ Fail([kind |-> "ConfigUnparsable"])
       \/ /\ pc' = "bulk_loop"
          /\ UNCHANGED result
    /\ UNCHANGED <<build, args, env, cfg, idx, call, token, resp, files, dirs, log, stdout>>

loop_position_reversed(i, n) == n - 1 - i

\* Line 682: iter().enumerate() pairs the i-th iteration with the i-th item.
loop_position(i, n) == i

\* Lines 682-760: the next item, its effective values, its output path and
\* the two checks that precede synthesize_to_wav; the loop ends after the
\* last item.
BulkItem ==
    /\ pc = "bulk_loop"
    /\ IF idx >= Len(cfg.items)
       THEN /\ pc' = "done"
            /\ result' = Some(Ok("unit"))
            /\ UNCHANGED <<call, token, resp, log>>
       ELSE LET pos == loop_position(idx, Len(cfg.items))
                item == cfg.items[pos + 1]
                defaults == defaults_of(cfg)
                eff == effective_params(item, defaults)
                output == output_path(item, defaults, pos, eff.encoding)
                enc == parse_encoding_from_str(eff.encoding)
                v == validate_output_extension(output, enc.value)
                ev(outcome) == [kind |-> "validate", item |-> pos + 1, path |-> output,
                                outcome |-> outcome]
            IN IF ~enc.ok
               THEN /\ Fail(enc.error)
                    /\ log' = Append(log, ev("UnsupportedEncoding"))
                    /\ UNCHANGED <<call, token, resp>>
               ELSE IF ~v.ok
               THEN /\ Fail(v.error)
                    /\ log' = Append(log, ev(v.error.kind))
                    /\ UNCHANGED <<call, token, resp>>
               ELSE /\ call' = [text |-> item.text, output |-> output,
                                language |-> eff.language, voice |-> eff.voice,
                                gender |-> eff.gender, rate |-> eff.rate,
                                pitch |-> eff.pitch, sample_rate |-> eff.sample_rate,
                                encoding |-> enc.value,
                                volume_gain_db |-> eff.volume_gain_db,
                                effects_profile_id |-> eff.effects_profile_id,
                                is_ssml |-> eff.is_ssml, timeout_ms |-> args.timeout_ms,
                                retries |-> args.retries, item |-> pos + 1, ret |-> "bulk"]
                    /\ token' = None
                    /\ resp' = None
                    /\ log' = Append(log, ev("ok"))
                    /\ pc' = "synth_mkdir"
                    /\ UNCHANGED result
    /\ UNCHANGED <<build, args, env, cfg, idx, files, dirs, stdout>>

\* Line 762, and the step to the next iteration.
BulkPrint ==
    /\ pc = "bulk_print"
    /\ stdout' = Append(stdout, Wrote(call.output))
    /\ log' = Append(log, Event("print", [path |-> call.output]))
    /\ idx' = idx + 1
    /\ pc' = "bulk_loop"
    /\ UNCHANGED <<build, args, env, cfg, call, token, resp, files, dirs, result>>

----------------------------------------------------------------------------

Next ==
    \/ MainMode
    \/ MainMcp
    \/ Voices
    \/ VoicesGet
    \/ VoicesResponse
    \/ SingleValidate
    \/ SingleDispatch
    \/ SinglePrint
    \/ BulkLoad
    \/ BulkItem
    \/ BulkPrint
    \/ SynthMkdir
    \/ FetchAccessToken
    \/ SaRead
    \/ SaSign
    \/ SaPost
    \/ SaResp
    \/ AdcPath
    \/ AdcRead
    \/ AdcPost
    \/ AdcResp
    \/ SynthRequest
    \/ SynthResponse
    \/ SynthWrite
    \/ SecondaryStart
    \/ SecondaryRequest
    \/ SecondaryResponse
    \/ SecondaryMkdir
    \/ SecondaryWrite

Spec == Init /\ [][Next]_vars

\* The exit status of the process.
ExitStatus == IF IsSome(result) /\ Unwrap(result).ok THEN 0 ELSE 1

----------------------------------------------------------------------------
(* validate_output_extension as a function of its two arguments *)

\* The most pieces a path under check is made of.
MaxPieces == 4

PathPieces ==
    {<<"a">>, <<".">>, <<"/">>, S_wav, <<"W","A","V">>, <<"M","p","3">>, S_ogg}

RECURSIVE PathsUpTo(_)
PathsUpTo(n) ==
    IF n = 0 THEN {<<>>}
    ELSE LET shorter == PathsUpTo(n - 1)
         IN shorter \cup {q \o x : q \in shorter, x \in PathPieces}

InitExt ==
    /\ args \in [output : {Some(q) : q \in PathsUpTo(MaxPieces)}, encoding : AudioEncoding]
    /\ env = <<>>
    /\ cfg = NoConfig
    /\ build = {}
    /\ pc = "ext"
    /\ idx = 0
    /\ call = None
    /\ token = None
    /\ resp = None
    /\ files = <<>>
    /\ dirs = {}
    /\ log = <<>>
    /\ stdout = <<>>
    /\ result = None

ExtValidate ==
    /\ pc = "ext"
    /\ result' = Some(validate_output_extension(Unwrap(args.output), args.encoding))
    /\ pc' = "done"
    /\ UNCHANGED <<build, args, env, cfg, idx, call, token, resp, files, dirs, log, stdout>>

SpecExt == InitExt /\ [][ExtValidate]_vars

----------------------------------------------------------------------------
(* The merge of one bulk item with the defaults, as a function of the two *)

\* The most fields an item, and the defaults, set in the merge under check.
MaxSetFields == 2

MergeFields ==
    {"language", "voice", "gender", "rate", "pitch", "sample_rate", "encoding",
     "volume_gain_db", "effects_profile_id", "ssml"}

ItemValues ==
    [language |-> "fr-FR", voice |-> "fr-FR-Wavenet-A", gender |-> <<"m","a","l","e">>,
     rate |-> 15, pitch |-> 20, sample_rate |-> 24000, encoding |-> S_mp3,
     volume_gain_db |-> -30, effects_profile_id |-> <<"wearable-class-device">>,
     ssml |-> FALSE]

DefaultsValues ==
    [language |-> "de-DE", voice |-> "de-DE-Wavenet-B", gender |-> <<"o","t","h","e","r">>,
     rate |-> 5, pitch |-> -10, sample_rate |-> 8000, encoding |-> S_opus_lc,
     volume_gain_db |-> 20, effects_profile_id |-> <<>>, ssml |-> TRUE]

FieldSets == {S \in SUBSET MergeFields : Cardinality(S) <= MaxSetFields}

ItemSetting(S) ==
    [f \in MergeFields |-> IF f \in S THEN Some(ItemValues[f]) ELSE None]
    @@ [text |-> "hello", output |-> None]

DefaultsSetting(S) ==
    [f \in MergeFields |-> IF f \in S THEN Some(DefaultsValues[f]) ELSE None]
    @@ [output_dir |-> None]

InitMerge ==
    /\ cfg \in [defaults : {None} \cup {Some(DefaultsSetting(S)) : S \in FieldSets},
                items : {<<ItemSetting(S)>> : S \in FieldSets}]
    /\ args = BaseArgs
    /\ env = <<>>
    /\ build = {}
    /\ pc = "merge"
    /\ idx = 0
    /\ call = None
    /\ token = None
    /\ resp = None
    /\ files = <<>>
    /\ dirs = {}
    /\ log = <<>>
    /\ stdout = <<>>
    /\ result = None

MergeItem ==
    /\ pc = "merge"
    /\ call' = effective_params(cfg.items[idx + 1], defaults_of(cfg))
    /\ pc' = "done"
    /\ UNCHANGED <<build, args, env, cfg, idx, token, resp, files, dirs, log, stdout, result>>

SpecMerge == InitMerge /\ [][MergeItem]_vars

----------------------------------------------------------------------------
(* The synthesis request as a function of the call's parameters *)

\* The longest list of effects profiles.
MaxEffects == 2

\* The parameters of a call of synthesize_to_wav.
BodyParams ==
    [text : {"hello", "<speak>hi</speak>"}, output : {P_a_wav},
     language : {"en-US"}, voice : {None, Some("en-US-Neural2-F")},
     gender : {None, Some("Neutral"), Some("Male"), Some("Female")},
     rate : {10, 15}, pitch : {0}, sample_rate : {None, Some(8000)},
     encoding : AudioEncoding, volume_gain_db : {0, -20},
     effects_profile_id : SeqsUpTo({"headphone", "car"}, MaxEffects),
     is_ssml : BOOLEAN, timeout_ms : {30000}, retries : {2}, item : {0},
     ret : {"single"}]

\* A call that has its token and is about to send its request.
InitBody ==
    /\ args = BaseArgs
    /\ env \in {e \in Envs : e.FAST_TTS_TOKEN = Some(T_tok)
                              /\ e.GOOGLE_APPLICATION_CREDENTIALS = None}
    /\ cfg = NoConfig
    /\ build = {}
    /\ pc = "synth_request"
    /\ idx = 0
    /\ call \in BodyParams
    /\ token = Some(T_tok)
    /\ resp = None
    /\ files = <<>>
    /\ dirs = {}
    /\ log = <<>>
    /\ stdout = <<>>
    /\ result = None

SpecBody == InitBody /\ [][SynthRequest]_vars

----------------------------------------------------------------------------
(* Credential resolution: C1, C2, C3 *)

\* The override variable is set and holds a character that is not white space.
OverrideUsable ==
    /\ IsSome(env.FAST_TTS_TOKEN)
    /\ \E i \in 1..Len(Unwrap(env.FAST_TTS_TOKEN)) :
           Unwrap(env.FAST_TTS_TOKEN)[i] \notin WhiteChars

KeyPathPresent == IsSome(env.GOOGLE_APPLICATION_CREDENTIALS)

SaPcs == {"sa_read", "sa_sign", "sa_post", "sa_resp"}
AdcPcs == {"adc_path", "adc_read", "adc_post", "adc_resp"}
HaveTokenPcs == {"synth_request", "voices_get"}

\* The file reads and network calls of credential resolution.
CredentialEvents == {"read_key", "adc_exists", "read_adc", "token_post"}
AdcEvents(l) ==
    {i \in 1..Len(l) : \/ l[i].kind \in {"adc_exists", "read_adc"}
                       \/ l[i].kind = "token_post" /\ l[i].grant = "refresh_token"}

\* The step of fetch_access_token that looks at the two variables.
FlowChosen ==
    pc = "token" =>
        IF OverrideUsable THEN pc' \in HaveTokenPcs /\ token' = env.FAST_TTS_TOKEN
        ELSE pc' = (IF KeyPathPresent THEN "sa_read" ELSE "adc_path") /\ token' = None

\* C1: the override token is returned exactly as supplied, with no file read
\* and no network call of credential resolution, if and only if the variable
\* is set and not blank; otherwise the fetch goes on with the service-account
\* step (the key path variable is looked up, and the flow it selects is run),
\* and a token, if one comes, comes from a token endpoint.
C1_OverrideVerbatim ==
    /\ [](OverrideUsable =>
            /\ \A i \in 1..Len(log) : log[i].kind \notin CredentialEvents
            /\ pc \notin SaPcs \cup AdcPcs
            /\ IsSome(token) => token = env.FAST_TTS_TOKEN)
    /\ [](~OverrideUsable /\ IsSome(token) =>
            /\ token # env.FAST_TTS_TOKEN
            /\ \E i \in 1..Len(log) : log[i].kind = "token_post" /\ log[i].item = call.item)
    /\ [][FlowChosen]_vars

\* A padded override token has been returned to the synthesis call.
C1_Witness ==
    /\ env.FAST_TTS_TOKEN = Some(T_padded)
    /\ pc = "synth_request"
    /\ token = Some(T_padded)

SaFailureKinds ==
    {"KeyUnreadable", "KeyUnparsable", "InvalidRsaKey", "Transport", "HttpStatus", "Json"}

\* The service-account step ends with its token or with its own error.
SaStepEnds ==
    pc \in SaPcs /\ pc' \notin SaPcs =>
        \/ pc' \in HaveTokenPcs /\ token' = Some(T_sa)
        \/ /\ pc' = "done"
           /\ ~Unwrap(result').ok
           /\ Unwrap(result').error.kind \in SaFailureKinds
           /\ AdcEvents(log') = {}

\* C2: with no usable override token and the key path variable present, the
\* service-account step is the last one: when it fails the run fails with the
\* error of that step, and neither the application-default-credentials file
\* nor the refresh-token exchange is ever touched.
C2_ServiceAccountFatal ==
    /\ [](~OverrideUsable /\ KeyPathPresent =>
            /\ AdcEvents(log) = {}
            /\ pc \notin AdcPcs)
    /\ [][SaStepEnds]_vars

\* The token endpoint refused the signed assertion and the run is over.
C2_Witness ==
    /\ ~OverrideUsable
    /\ KeyPathPresent
    /\ pc = "done"
    /\ log # <<>>
    /\ log[Len(log)].kind = "token_post"
    /\ result = Some(Err([kind |-> "HttpStatus", status |-> 401]))

AdcStepEntered ==
    pc = "token" /\ ~OverrideUsable /\ ~KeyPathPresent => pc' = "adc_path"

\* The refresh step ends with its token or with the guidance error.
AdcStepEnds ==
    pc \in AdcPcs /\ pc' \notin AdcPcs =>
        \/ pc' \in HaveTokenPcs /\ token' = Some(T_adc)
        \/ pc' = "done" /\ result' = Some(Err(NoCredentials))

\* C3: with neither a usable override token nor a key path, the fetch goes to
\* the application-default-credentials file, reads it only after finding that
\* it exists, and every way this step can fail (no file, unreadable,
\* unparsable, exchange failed) ends the run with NoCredentials, never with
\* the failure underneath.
C3_AdcFallsThrough ==
    /\ [](\A i \in 1..Len(log) :
            log[i].kind = "read_adc" =>
                i > 1 /\ log[i - 1].kind = "adc_exists" /\ log[i - 1].found)
    /\ [](pc \in AdcPcs => ~OverrideUsable /\ ~KeyPathPresent)
    /\ [][AdcStepEntered]_vars
    /\ [][AdcStepEnds]_vars

\* The refresh-token exchange was refused and the run ended with NoCredentials.
C3_Witness ==
    /\ pc = "done"
    /\ log # <<>>
    /\ log[Len(log)].kind = "token_post"
    /\ log[Len(log)].grant = "refresh_token"
    /\ result = Some(Err(NoCredentials))
    /\ resp = Some([status |-> 401, access_token |-> None])

----------------------------------------------------------------------------
(* The output extension: C4, C5 *)

\* The extension EncodingPolicy assigns to each encoding.
PolicyExtension(e) ==
    CASE e \in {"Linear16", "Mulaw", "Alaw"} -> S_wav
      [] e = "Mp3" -> S_mp3
      [] e = "OggOpus" -> S_ogg

\* The name ends in a dot followed by w in any letter case, and the dot is
\* not its first character (w holds no dot).
EndsWithExt(name, w) ==
    /\ Len(name) > Len(w) + 1
    /\ name[Len(name) - Len(w)] = "."
    /\ \A i \in 1..Len(w) : LowerChar(name[Len(name) - Len(w) + i]) = w[i]

\* The name has an extension: a dot that is not its first character.
HasExt(name) == \E i \in 2..Len(name) : name[i] = "."

\* The path's extension is the one the policy assigns to the encoding.
ExtensionMatches(path, e) ==
    /\ IsSome(file_name(path))
    /\ EndsWithExt(Unwrap(file_name(path)), PolicyExtension(e))

\* The error a path that does not match is rejected with.
RejectedAsClaimed(path, e, r) ==
    /\ ~r.ok
    /\ r.error.expected = PolicyExtension(e)
    /\ IF IsSome(file_name(path)) /\ HasExt(Unwrap(file_name(path)))
       THEN /\ r.error.kind = "ExtensionMismatch"
            /\ EndsWithExt(Unwrap(file_name(path)), r.error.got)
       ELSE r.error.kind = "ExtensionMissing"

\* C4: validate_output_extension succeeds exactly on the paths whose
\* extension is, in any letter case, the policy's extension for the encoding;
\* the others are rejected, a different extension and a missing one with two
\* different errors.
C4_ExtensionIff ==
    pc = "done" =>
        LET path == Unwrap(args.output)
            r == Unwrap(result)
        IN IF ExtensionMatches(path, args.encoding) THEN r.ok
           ELSE RejectedAsClaimed(path, args.encoding, r)

\* An upper-case extension was accepted for an encoding that shares "wav".
C4_Witness ==
    /\ pc = "done"
    /\ args.output = Some(<<"a", ".", "W", "A", "V">>)
    /\ args.encoding = "Alaw"
    /\ Unwrap(result).ok

SingleShot ==
    /\ ~IsSome(args.mcp_mode)
    /\ ~IsSome(args.config_path)
    /\ ~args.list_voices
    /\ IsSome(args.text)
    /\ IsSome(args.output)

NetworkEvents == {"token_post", "synthesize_post", "voices_get"}

\* C5: a single-shot run whose output extension does not match the encoding
\* ends at the extension check, with the error that names the extension given
\* and the one expected, and has sent nothing to a token endpoint or to the
\* provider.
C5_ExtensionBeforeNetwork ==
    SingleShot /\ ~ExtensionMatches(Unwrap(args.output), args.encoding) =>
        /\ \A i \in 1..Len(log) : log[i].kind \notin NetworkEvents
        /\ pc \in {"main", "single", "done"}
        /\ pc = "done" =>
               RejectedAsClaimed(Unwrap(args.output), args.encoding, Unwrap(result))

\* LINEAR16 was asked for with a path ending in .mp3, and the run has failed.
C5_Witness ==
    /\ SingleShot
    /\ args.encoding = "Linear16"
    /\ args.output = Some(P_d_b_mp3)
    /\ pc = "done"
    /\ log = <<>>
    /\ result = Some(Err([kind |-> "ExtensionMismatch", got |-> S_mp3,
                          encoding |-> S_LINEAR16, expected |-> S_wav]))

----------------------------------------------------------------------------
(* The bulk merge: C6, C7 *)

\* The last link of the precedence chain, field by field.
Fallback ==
    [language |-> Some("en-US"), voice |-> None, gender |-> None, rate |-> Some(10),
     pitch |-> Some(0), sample_rate |-> None, encoding |-> Some(S_LINEAR16),
     volume_gain_db |-> Some(0), effects_profile_id |-> Some(<<>>),
     ssml |-> Some(FALSE)]

\* Item, else defaults, else fallback, looking at field f alone.
Chosen(c, item, f) ==
    IF IsSome(item[f]) THEN item[f]
    ELSE IF IsSome(c.defaults) /\ IsSome(Unwrap(c.defaults)[f]) THEN Unwrap(c.defaults)[f]
    ELSE Fallback[f]

\* C6: every effective value of a bulk item is the item's value if the item
\* sets that field, else the defaults' value if the defaults set it, else the
\* hardcoded fallback; only that field of the item and of the defaults is
\* looked at.
C6_MergePrecedence ==
    pc = "done" =>
        LET item == cfg.items[1]
            ch(f) == Chosen(cfg, item, f)
        IN /\ call.language = Unwrap(ch("language"))
           /\ call.voice = ch("voice")
           /\ call.gender = IF IsSome(ch("gender"))
                            THEN Some(gender_of(Unwrap(ch("gender")))) ELSE None
           /\ call.rate = Unwrap(ch("rate"))
           /\ call.pitch = Unwrap(ch("pitch"))
           /\ call.sample_rate = ch("sample_rate")
           /\ call.encoding = Unwrap(ch("encoding"))
           /\ call.volume_gain_db = Unwrap(ch("volume_gain_db"))
           /\ call.effects_profile_id = Unwrap(ch("effects_profile_id"))
           /\ call.is_ssml = Unwrap(ch("ssml"))

\* The item sets language and ssml, the defaults set language, ssml and rate:
\* the item wins where it speaks, the defaults elsewhere, the fallback last.
C6_Witness ==
    /\ pc = "done"
    /\ cfg.items[1] = ItemSetting({"language", "ssml"})
    /\ cfg.defaults = Some(DefaultsSetting({"language", "ssml"}))
    /\ call.language = "fr-FR"
    /\ call.is_ssml = FALSE
    /\ call.pitch = 0

BulkRun == ~IsSome(args.mcp_mode) /\ IsSome(args.config_path)

\* The effective encoding string of the item at 1-based position n.
EffectiveEncoding(n) == Unwrap(Chosen(cfg, cfg.items[n], "encoding"))

\* The output path the item at 1-based position n is to get.
ClaimedPath(n) ==
    LET item == cfg.items[n]
        ext == PolicyExtension(parse_encoding_from_str(EffectiveEncoding(n)).value)
        name == <<"i","t","e","m","_">> \o Decimal(n) \o <<".">> \o ext
    IN IF IsSome(item.output) THEN Unwrap(item.output)
       ELSE IF IsSome(cfg.defaults) /\ IsSome(Unwrap(cfg.defaults).output_dir)
       THEN Unwrap(Unwrap(cfg.defaults).output_dir) \o <<"/">> \o name
       ELSE name

\* C7: the output path of the item at position n is its explicit path, else
\* <outputDir>/item_n.<ext>, else item_n.<ext>, <ext> being the policy's
\* extension of the item's effective encoding; stated for the items whose
\* effective encoding is one the run accepts.
C7_OutputPath ==
    BulkRun =>
        \A i \in 1..Len(log) :
            log[i].kind = "validate" /\ parse_encoding_from_str(EffectiveEncoding(log[i].item)).ok
                => log[i].path = ClaimedPath(log[i].item)

----------------------------------------------------------------------------
(* The bulk run: C8, C9 *)

\* The writes that put their bytes on disk.
SuccessfulWrites(l) == {i \in 1..Len(l) : l[i].kind = "write" /\ l[i].outcome = "ok"}

\* Every file a successful write produced, and no later write touched, holds
\* the bytes of that write.
WrittenFilesInPlace ==
    \A i \in SuccessfulWrites(log) :
        (\A j \in (i + 1)..Len(log) : log[j].kind = "write" => log[j].path # log[i].path)
            => /\ log[i].path \in DOMAIN files
               /\ files[log[i].path] = log[i].bytes

\* C8: a bulk run ends at the first item that fails: the run is over as soon
\* as it has an error (no step follows), nothing was done for any later item,
\* one confirmation was printed for each earlier item, the files of the
\* earlier items are on disk as written, and the exit status is a failure.
C8_StopsAtFirstFailure ==
    /\ [](IsSome(result) => pc = "done")
    /\ [][pc # "done"]_vars
    /\ [](BulkRun /\ pc = "done" /\ ~Unwrap(result).ok =>
            /\ \A i \in 1..Len(log) : log[i].item <= idx + 1
            /\ Len(stdout) = idx
            /\ \A n \in 1..idx : \E i \in SuccessfulWrites(log) : log[i].item = n
            /\ WrittenFilesInPlace
            /\ ExitStatus # 0)

\* The second item failed at its synthesis request after the first was written.
C8_Witness ==
    /\ BulkRun
    /\ pc = "done"
    /\ idx = 1
    /\ Len(cfg.items) = 2
    /\ result = Some(Err([kind |-> "HttpStatus", status |-> 500]))
    /\ \E i \in SuccessfulWrites(log) : log[i].item = 1 /\ files[log[i].path] = <<65>>

\* The place of each kind of action within the processing of one item.
Rank(kind) ==
    CASE kind = "validate" -> 1
      [] kind = "create_dir_all" -> 2
      [] kind = "fetch_access_token" -> 3
      [] kind \in CredentialEvents -> 4
      [] kind = "synthesize_post" -> 5
      [] kind = "write" -> 6
      [] kind = "print" -> 7

\* C9: a bulk run handles the items in list order, one after the other: the
\* actions of an item all come before those of any later item, in the order
\* validation, directory, credentials, request, write, confirmation, each but
\* the credential steps at most once; so the written items are a prefix of
\* the list at every moment.
C9_ListOrder ==
    BulkRun =>
        /\ \A i \in 1..Len(log) : log[i].item \in 1..Len(cfg.items)
        /\ \A i, j \in 1..Len(log) :
             i < j =>
                \/ log[i].item < log[j].item
                \/ /\ log[i].item = log[j].item
                   /\ \/ Rank(log[i].kind) < Rank(log[j].kind)
                      \/ /\ Rank(log[i].kind) = Rank(log[j].kind)
                         /\ log[i].kind \in CredentialEvents
        /\ LET written == {log[i].item : i \in SuccessfulWrites(log)}
           IN written = 1..Cardinality(written)

\* Two items have been written and confirmed, the first before the second.
C9_Witness ==
    /\ BulkRun
    /\ pc = "done"
    /\ Unwrap(result).ok
    /\ Len(cfg.items) = 2
    /\ {log[i].item : i \in SuccessfulWrites(log)} = {1, 2}
    /\ Len(stdout) = 2

----------------------------------------------------------------------------
(* Timeout and retry count: C10 *)

SynthesisRequests(n) ==
    {i \in 1..Len(log) : log[i].kind = "synthesize_post" /\ log[i].item = n}

\* The error a synthesis call ends with after its request, read off the
\* answer alone (none: the transport failed).
ErrorOfAnswer(r) ==
    IF ~IsSome(r) THEN [kind |-> "Transport"]
    ELSE IF Unwrap(r).status # 200 THEN [kind |-> "HttpStatus", status |-> Unwrap(r).status]
    ELSE IF ~IsSome(Unwrap(r).audio_content) THEN [kind |-> "Json"]
    ELSE [kind |-> "Base64", error |-> "InvalidLastSymbol"]

----------------------------------------------------------------------------
(* One token per synthesis call: C11 *)

EventsOf(kind, n) == {i \in 1..Len(log) : log[i].kind = kind /\ log[i].item = n}

\* The kinds of the log's events among those of K, in the order of the log.
RECURSIVE KindsAmong(_, _)
KindsAmong(l, K) ==
    IF l = <<>> THEN <<>>
    ELSE IF l[1].kind \in K THEN <<l[1].kind>> \o KindsAmong(Tail(l), K)
    ELSE KindsAmong(Tail(l), K)

\* C11: in a bulk run every item that reaches synthesis has had one
\* credential resolution of its own, after its validation and before its
\* synthesis request (and, without an override token, one exchange with a
\* token endpoint of its own); resolutions and synthesis requests alternate,
\* and a run of n successful items has made n of each.
C11_TokenPerCall ==
    BulkRun =>
        /\ \A n \in 1..Len(cfg.items) :
             /\ Cardinality(EventsOf("fetch_access_token", n)) <= 1
             /\ \A f \in EventsOf("fetch_access_token", n) :
                    \E v \in EventsOf("validate", n) : v < f /\ log[v].outcome = "ok"
             /\ \A r \in EventsOf("synthesize_post", n) :
                    /\ \E f \in EventsOf("fetch_access_token", n) : f < r
                    /\ ~OverrideUsable => \E t \in EventsOf("token_post", n) : t < r
        /\ (pc = "synth_request" => EventsOf("fetch_access_token", call.item) # {})
        /\ LET ks == KindsAmong(log, {"fetch_access_token", "synthesize_post"})
           IN /\ \A i \in 1..Len(ks) :
                    ks[i] = IF i % 2 = 1 THEN "fetch_access_token" ELSE "synthesize_post"
              /\ pc = "done" /\ Unwrap(result).ok => Len(ks) = 2 * Len(cfg.items)

\* Two items were synthesized with tokens from the service-account flow: two
\* exchanges with the token endpoint, two synthesis requests.
C11_Witness ==
    /\ BulkRun
    /\ pc = "done"
    /\ Unwrap(result).ok
    /\ Len(cfg.items) = 2
    /\ KindsAmong(log, {"token_post", "synthesize_post"})
         = <<"token_post", "synthesize_post", "token_post", "synthesize_post">>

----------------------------------------------------------------------------
(* The synthesis request body: C12, C13 *)

\* The bodies of the synthesis requests sent so far.
BodiesSent == {log[i].body : i \in EventsOf("synthesize_post", 0)}

\* C12: the input object of every synthesis request has exactly one key,
\* ssml when the SSML flag is set and text otherwise, and it holds the input
\* string.
C12_InputOneKey ==
    \A b \in BodiesSent :
        /\ DOMAIN b.input = (IF call.is_ssml THEN {"ssml"} ELSE {"text"})
        /\ \A k \in DOMAIN b.input : b.input[k] = call.text

\* SSML input went out under the key ssml.
C12_Witness ==
    /\ call # None
    /\ call.is_ssml
    /\ call.text = "<speak>hi</speak>"
    /\ \E b \in BodiesSent : b.input = [ssml |-> "<speak>hi</speak>"]

\* The wire string EncodingPolicy assigns to each encoding.
PolicyWire(e) ==
    CASE e = "Linear16" -> <<"L","I","N","E","A","R","1","6">>
      [] e = "Mp3" -> <<"M","P","3">>
      [] e = "OggOpus" -> <<"O","G","G","_","O","P","U","S">>
      [] e = "Mulaw" -> <<"M","U","L","A","W">>
      [] e = "Alaw" -> <<"A","L","A","W">>

\* C13: every synthesis request carries the wire string of the requested
\* encoding, a false enableLegacyWavHeader, and speakingRate, pitch and
\* volumeGainDb; voice.name, voice.ssmlGender and sampleRateHertz are there
\* exactly when the parameter was given, effectsProfileId exactly when the
\* list is not empty, in the given order; nothing else is in the two objects
\* but the language code.
C13_AudioConfigFields ==
    \A b \in BodiesSent :
        /\ b.audioConfig.audioEncoding = PolicyWire(call.encoding)
        /\ b.audioConfig.enableLegacyWavHeader = FALSE
        /\ b.audioConfig.speakingRate = call.rate
        /\ b.audioConfig.pitch = call.pitch
        /\ b.audioConfig.volumeGainDb = call.volume_gain_db
        /\ DOMAIN b.audioConfig =
              {"audioEncoding", "enableLegacyWavHeader", "speakingRate", "pitch",
               "volumeGainDb"}
              \cup (IF IsSome(call.sample_rate) THEN {"sampleRateHertz"} ELSE {})
              \cup (IF call.effects_profile_id # <<>> THEN {"effectsProfileId"} ELSE {})
        /\ IsSome(call.sample_rate) => b.audioConfig.sampleRateHertz = Unwrap(call.sample_rate)
        /\ call.effects_profile_id # <<>> =>
               b.audioConfig.effectsProfileId = call.effects_profile_id
        /\ DOMAIN b.voice =
              {"languageCode"}
              \cup (IF IsSome(call.voice) THEN {"name"} ELSE {})
              \cup (IF IsSome(call.gender) THEN {"ssmlGender"} ELSE {})
        /\ IsSome(call.voice) => b.voice.name = Unwrap(call.voice)
        /\ IsSome(call.gender) =>
               b.voice.ssmlGender = (CASE Unwrap(call.gender) = "Neutral" -> "NEUTRAL"
                                       [] Unwrap(call.gender) = "Male" -> "MALE"
                                       [] Unwrap(call.gender) = "Female" -> "FEMALE")

\* A request for MULAW with a voice, a sample rate and two effects profiles,
\* and no gender.
C13_Witness ==
    /\ call # None
    /\ \E b \in BodiesSent :
         /\ b.voice = [languageCode |-> "en-US", name |-> "en-US-Neural2-F"]
         /\ b.audioConfig.audioEncoding = <<"M","U","L","A","W">>
         /\ "sampleRateHertz" \in DOMAIN b.audioConfig
         /\ "effectsProfileId" \in DOMAIN b.audioConfig
         /\ b.audioConfig.effectsProfileId = <<"car", "headphone">>

----------------------------------------------------------------------------
(* The audio written: C14 *)

B64Char(v) == B64Chars[v + 1]

\* Standard padded base64 of a sequence of bytes.
RECURSIVE Base64Encode(_)
Base64Encode(b) ==
    IF b = <<>> THEN <<>>
    ELSE IF Len(b) = 1
    THEN <<B64Char(b[1] \div 4), B64Char((b[1] % 4) * 16), "=", "=">>
    ELSE IF Len(b) = 2
    THEN <<B64Char(b[1] \div 4), B64Char((b[1] % 4) * 16 + (b[2] \div 16)),
           B64Char((b[2] % 16) * 4), "=">>
    ELSE <<B64Char(b[1] \div 4), B64Char((b[1] % 4) * 16 + (b[2] \div 16)),
           B64Char((b[2] % 16) * 4 + (b[3] \div 64)), B64Char(b[3] % 64)>>
         \o Base64Encode(SubSeq(b, 4, Len(b)))

\* The answer to the synthesis request of the call under way, if it has come.
SynthAnswer ==
    IF IsSome(resp) /\ "audio_content" \in DOMAIN Unwrap(resp) THEN resp ELSE None

\* A padded group that is the base64 of no byte.
NotBase64(c) ==
    /\ Len(c) = 4
    /\ c[3] = "=" /\ c[4] = "="
    /\ \A v \in 0..255 : Base64Encode(<<v>>) # c

\* The answer has no audio_content, or one that is not base64.
AnswerUnusable(r) ==
    \/ ~IsSome(r.audio_content)
    \/ NotBase64(Unwrap(r.audio_content))

\* The run synthesizes with the primary provider.
PrimaryRun ==
    /\ ~IsSome(args.mcp_mode)
    /\ IsSome(args.config_path) \/ (~args.list_voices /\ args.provider = "Google")

\* C14: when a synthesis call has returned, the output file holds exactly the
\* bytes whose base64 is the audio_content of the answer; an answer with no
\* audio_content, or with one that is not base64, makes the call fail without
\* a write to the output file, and only such an answer fails in this way.
C14_DecodedBytesWritten ==
    /\ PrimaryRun /\ pc \in {"single_print", "bulk_print"} =>
         /\ IsSome(SynthAnswer)
         /\ call.output \in DOMAIN files
         /\ Base64Encode(files[call.output]) = Unwrap(Unwrap(resp).audio_content)
    /\ \A i \in SuccessfulWrites(log) :
         log[i].item = call.item /\ IsSome(SynthAnswer) =>
             Base64Encode(log[i].bytes) = Unwrap(Unwrap(resp).audio_content)
    /\ IsSome(SynthAnswer) /\ Unwrap(resp).status = 200 /\ pc # "synth_response" =>
         IF AnswerUnusable(Unwrap(resp))
         THEN /\ pc = "done"
              /\ ~Unwrap(result).ok
              /\ Unwrap(result).error.kind \in {"Json", "Base64"}
              /\ EventsOf("write", call.item) = {}
         ELSE pc = "done" /\ ~Unwrap(result).ok =>
                  Unwrap(result).error.kind \notin {"Json", "Base64"}

\* The answer held "QUJD" and the file holds the three bytes of "ABC".
C14_Witness ==
    /\ SingleShot
    /\ pc = "done"
    /\ result = Some(Ok("unit"))
    /\ resp = Some([status |-> 200, audio_content |-> Some(B_QUJD), delay_ms |-> 60000])
    /\ files = [q \in {P_a_wav} |-> <<65, 66, 67>>]

----------------------------------------------------------------------------
(* Exit status and confirmation lines: C15 *)

\* The confirmation lines among the lines printed, in order.
WroteLines == SelectSeq(stdout, LAMBDA l : "wrote" \in DOMAIN l)

\* The paths of the writes that succeeded, in order.
WrittenPaths ==
    LET ok == SelectSeq(log, LAMBDA ev : ev.kind = "write" /\ ev.outcome = "ok")
    IN [i \in 1..Len(ok) |-> ok[i].path]

\* Every output file the run was asked for has been written.
AllOutputsWritten ==
    IF BulkRun
    THEN \A n \in 1..Len(cfg.items) : \E i \in SuccessfulWrites(log) : log[i].item = n
    ELSE SingleShot =>
            /\ WrittenPaths = <<Unwrap(args.output)>>
            /\ Unwrap(args.output) \in DOMAIN files

\* C15: the exit status is 0 only if every requested output file was written,
\* and is not 0 when the run ended with an error; each confirmation line is
\* "Wrote <path>" for a file written before it, one line per write and in the
\* order of the writes, the last write waiting at most for its own line; when
\* the run is over there are as many lines as writes.
C15_ExitAndConfirmations ==
    /\ pc = "done" /\ ExitStatus = 0 => AllOutputsWritten
    /\ pc = "done" /\ ~Unwrap(result).ok => ExitStatus # 0
    /\ Len(WroteLines) <= Len(WrittenPaths)
    /\ Len(WrittenPaths) <= Len(WroteLines) + 1
    /\ \A i \in 1..Len(WroteLines) : WroteLines[i] = Wrote(WrittenPaths[i])
    /\ pc = "done" => Len(WroteLines) = Len(WrittenPaths)

\* A single-shot run through a secondary adapter wrote its file, printed its
\* line and ended with status 0.
C15_Witness ==
    /\ SingleShot
    /\ args.provider = "Deepgram"
    /\ pc = "done"
    /\ ExitStatus = 0
    /\ stdout = <<Wrote(P_d_b_mp3)>>
    /\ files = [q \in {P_d_b_mp3} |-> <<82, 73>>]

----------------------------------------------------------------------------
(* Secondary providers and providers without an adapter: C16, C17, C18 *)

AdapterProviders == {"Openai", "Elevenlabs", "Deepgram", "Azure", "Gemini"}

\* The variables each adapter needs.
NeededVars(p) ==
    CASE p = "Openai" -> {"OPENAI_API_KEY"}
      [] p = "Elevenlabs" -> {"ELEVENLABS_API_KEY"}
      [] p = "Deepgram" -> {"DEEPGRAM_API_KEY"}
      [] p = "Azure" -> {"AZURE_SPEECH_KEY", "AZURE_SPEECH_REGION"}
      [] p = "Gemini" -> {"GEMINI_API_KEY"}

AbsentVars(p) == {v \in NeededVars(p) : ~IsSome(env[v])}

\* A single-shot run that gets as far as the provider's adapter.
ReachesDispatch ==
    SingleShot /\ ExtensionMatches(Unwrap(args.output), args.encoding)

\* The file system is as the run found it.
FilesUntouched ==
    /\ IsSome(args.output)
    /\ files \in OldFiles(Unwrap(args.output))
    /\ dirs = UNION {DirsOf(q) : q \in DOMAIN files}
    /\ \A i \in 1..Len(log) : log[i].kind \notin {"write", "create_dir_all"}

\* The provider's output formats have none for the encoding: mu-law and A-law
\* on the four providers whose adapters name only mp3, opus/ogg and wav.
CannotRepresent(p, e) ==
    /\ p \in {"Openai", "Elevenlabs", "Deepgram", "Gemini"}
    /\ e \in {"Mulaw", "Alaw"}

\* C16: a secondary adapter asked for an encoding its provider cannot
\* represent fails with UnsupportedEncoding naming the alternatives, and has
\* sent no request and written no file.
C16_UnsupportedEncodingFails ==
    /\ ReachesDispatch
    /\ args.provider \in AdapterProviders
    /\ AbsentVars(args.provider) = {}
    /\ CannotRepresent(args.provider, args.encoding)
    => /\ EventsOf("provider_post", 0) = {}
       /\ FilesUntouched
       /\ pc = "done" =>
            /\ ~Unwrap(result).ok
            /\ Unwrap(result).error.kind = "UnsupportedEncoding"

\* C17: a secondary adapter that lacks one of its variables fails with an
\* error naming a variable it needs and does not have, and nothing was sent,
\* created or written; no run with a secondary provider resolves the primary
\* provider's credentials.
C17_MissingCredentialFirst ==
    ReachesDispatch /\ args.provider \in AdapterProviders =>
        /\ token = None
        /\ \A i \in 1..Len(log) :
               log[i].kind \notin CredentialEvents \cup {"fetch_access_token"}
        /\ AbsentVars(args.provider) # {} =>
              /\ log = <<>>
              /\ FilesUntouched
              /\ pc \in {"main", "single", "dispatch", "secondary", "done"}
              /\ pc = "done" =>
                    /\ ~Unwrap(result).ok
                    /\ Unwrap(result).error.kind = "MissingCredential"
                    /\ Unwrap(result).error.variable \in AbsentVars(args.provider)

\* Azure with its key but without its region: the run ended naming the region.
C17_Witness ==
    /\ ReachesDispatch
    /\ args.provider = "Azure"
    /\ IsSome(env.AZURE_SPEECH_KEY)
    /\ pc = "done"
    /\ log = <<>>
    /\ result = Some(Err([kind |-> "MissingCredential", variable |-> "AZURE_SPEECH_REGION"]))

\* The provider has no adapter in this build.
NoAdapter ==
    \/ args.provider \in {"Hume", "Listnr", "Murf"}
    \/ args.provider = "Polly" /\ "polly" \notin build

\* C18: a single-shot run that gets as far as the dispatch with a provider
\* that has no adapter ends with an error naming the provider as not
\* available; no credential was looked up, nothing was sent, created, written
\* or printed.
C18_NoAdapterFails ==
    ReachesDispatch /\ NoAdapter =>
        /\ log = <<>>
        /\ token = None
        /\ FilesUntouched
        /\ stdout = <<>>
        /\ pc \in {"main", "single", "dispatch", "done"}
        /\ pc = "done" =>
              /\ ~Unwrap(result).ok
              /\ Unwrap(result).error.kind \in {"NotImplemented", "RequiresFeature"}
              /\ Unwrap(result).error.provider = args.provider

\* Polly was selected in a build without its feature, with every credential
\* in the environment.
C18_Witness ==
    /\ ReachesDispatch
    /\ args.provider = "Polly"
    /\ build = {}
    /\ IsSome(env.FAST_TTS_TOKEN)
    /\ pc = "done"
    /\ result = Some(Err([kind |-> "RequiresFeature", provider |-> "Polly",
                          feature |-> "polly"]))

----------------------------------------------------------------------------
(* The signed assertion: C19 *)

\* The assertion of the service-account flow under way and the key it was
\* built from, once it is signed.
SignedAssertion ==
    IF pc = "sa_post" THEN Some(Unwrap(resp).jwt)
    ELSE IF pc = "sa_resp" THEN Some(Unwrap(resp).assertion)
    ELSE None

\* C19: every signed assertion has exp = iat + 3600, the cloud-platform
\* scope, and the header RS256 / JWT; its iss is the key's client email and
\* its aud the key's token URI, or the standard endpoint when the key has
\* none; it is posted to the URI of its aud; before a fetch signs there is no
\* assertion to reuse.
C19_AssertionClaims ==
    /\ IsSome(SignedAssertion) =>
         LET a == Unwrap(SignedAssertion)
         IN /\ a.claims.exp = a.claims.iat + 3600
            /\ a.claims.scope = "https://www.googleapis.com/auth/cloud-platform"
            /\ a.header = [alg |-> "RS256", typ |-> "JWT"]
            /\ DOMAIN a.claims = {"iss", "scope", "aud", "exp", "iat"}
    /\ pc = "sa_post" =>
         LET key == Unwrap(resp)
         IN /\ key.jwt.claims.iss = key.client_email
            /\ key.jwt.claims.aud = (IF IsSome(key.token_uri) THEN Unwrap(key.token_uri)
                                     ELSE "https://oauth2.googleapis.com/token")
    /\ pc = "sa_resp" => Unwrap(resp).url = Unwrap(resp).assertion.claims.aud
    /\ pc \in {"token", "sa_read", "sa_sign"} =>
         ~(IsSome(resp) /\ DOMAIN Unwrap(resp) \cap {"jwt", "assertion"} # {})

\* An assertion issued at 1762264800 for a key with its own token URI was
\* posted there.
C19_Witness ==
    /\ pc = "sa_resp"
    /\ Unwrap(resp).url = "https://sts.example/token"
    /\ Unwrap(resp).assertion.claims =
          [iss |-> "sa@p.iam", scope |-> "https://www.googleapis.com/auth/cloud-platform",
           aud |-> "https://sts.example/token", exp |-> 1762268400, iat |-> 1762264800]

----------------------------------------------------------------------------
(* Directories and overwriting: C20 *)

\* The directories a path lies in, by its separators.
Ancestors(path) == {SubSeq(path, 1, k - 1) : k \in {j \in 2..Len(path) : path[j] = "/"}}

\* The writes that opened their file.
OpenedWrites == {i \in 1..Len(log) : log[i].kind = "write" /\ log[i].outcome # "not_opened"}

\* C20: when an adapter writes, every directory the output path lies in
\* exists, created by a create_dir_all of the same call that came before the
\* write; a path with no parent component has nothing created for it; a
\* successful write leaves the file holding the new bytes whatever was at
\* the path before.
C20_MkdirThenOverwrite ==
    /\ \A i \in OpenedWrites :
         /\ Ancestors(log[i].path) \subseteq dirs
         /\ Ancestors(log[i].path) # {} =>
              \E j \in 1..(i - 1) :
                  /\ log[j].kind = "create_dir_all"
                  /\ log[j].item = log[i].item
                  /\ log[j].path \in Ancestors(log[i].path)
                  /\ Ancestors(log[j].path) \cup {log[j].path} = Ancestors(log[i].path)
    /\ \A j \in 1..Len(log) :
         log[j].kind = "create_dir_all" => log[j].path # <<>>
    /\ call # None /\ "output" \in DOMAIN call /\ Ancestors(call.output) = {} =>
         EventsOf("create_dir_all", call.item) = {}
    /\ WrittenFilesInPlace

\* Two bulk items named d/b.mp3: the second write replaced the one byte of
\* the first by its three, in the directory the first call had created.
C20_Witness ==
    /\ BulkRun
    /\ pc = "done"
    /\ Unwrap(result).ok
    /\ dirs = {<<"d">>}
    /\ files = [q \in {P_d_b_mp3} |-> <<65, 66, 67>>]
    /\ \E i, j \in SuccessfulWrites(log) :
         /\ i < j
         /\ log[i].path = P_d_b_mp3 /\ log[i].bytes = <<65>>
         /\ log[j].path = P_d_b_mp3 /\ log[j].bytes = <<65, 66, 67>>

----------------------------------------------------------------------------
(* The list-voices run and the bearer token: C21 *)

\* The run that main hands to list_voices.
VoicesRun ==
    /\ ~IsSome(args.mcp_mode)
    /\ ~IsSome(args.config_path)
    /\ args.list_voices

\* The requests to the primary provider.
PrimaryRequests == {"voices_get", "synthesize_post"}

\* A request that has just been sent carries the token the fetch handed over,
\* as it is, behind the word Bearer and one space.
RequestCarriesToken ==
    (Len(log') = Len(log) + 1 /\ log'[Len(log')].kind \in PrimaryRequests) =>
        /\ IsSome(token)
        /\ token' = token
        /\ log'[Len(log')].authorization = S_Bearer \o Unwrap(token)

\* C21: a list-voices run never sends a synthesis request, never touches the
\* file system and never asks for the text and the output path; it sends its
\* one GET once the token is there (none before, none without a token, never
\* a second one), and every request to the primary provider, GET or POST,
\* carries exactly the token the fetch returned.
C21_VoicesOneGet ==
    /\ [](VoicesRun =>
            /\ \A i \in 1..Len(log) :
                   log[i].kind \notin {"synthesize_post", "provider_post", "write",
                                       "create_dir_all", "validate"}
            /\ files = <<>> /\ dirs = {}
            /\ result # Some(Err([kind |-> "MissingArguments"]))
            /\ Cardinality(EventsOf("voices_get", 0)) <= 1
            /\ (EventsOf("voices_get", 0) # {}) => IsSome(token)
            /\ (pc = "voices_response" \/ (IsSome(result) /\ Unwrap(result).ok))
                   => Cardinality(EventsOf("voices_get", 0)) = 1)
    /\ [](~VoicesRun => \A i \in 1..Len(log) : log[i].kind # "voices_get")
    /\ [][RequestCarriesToken]_vars

\* A list-voices run without text and output has sent its GET with a padded
\* override token and has printed the voices.
C21_Witness ==
    /\ VoicesRun
    /\ args.text = None /\ args.output = None
    /\ env.FAST_TTS_TOKEN = Some(T_padded)
    /\ pc = "done"
    /\ result = Some(Ok("unit"))
    /\ stdout # <<>>
    /\ Len(log) = 2
    /\ log[2].kind = "voices_get"
    /\ log[2].authorization = S_Bearer \o T_padded

----------------------------------------------------------------------------
(* An encoding name the bulk run does not know: C22 *)

\* The five encoding names.
EncodingNames == {S_LINEAR16, S_MP3, S_OGG_OPUS, S_MULAW, S_ALAW}

\* The string names one of the five, letter case and surrounding white space
\* aside.
Recognized(s) == \E name \in EncodingNames : to_uppercase(trim(s)) = name

\* The path of the item at 1-based position n with the generic extension.
GenericPath(n) ==
    LET item == cfg.items[n]
        name == <<"i","t","e","m","_">> \o Decimal(n) \o <<".","b","i","n">>
    IN IF IsSome(item.output) THEN Unwrap(item.output)
       ELSE IF IsSome(cfg.defaults) /\ IsSome(Unwrap(cfg.defaults).output_dir)
       THEN Unwrap(Unwrap(cfg.defaults).output_dir) \o <<"/">> \o name
       ELSE name

\* C22: in a bulk run, an item whose effective encoding string names none of
\* the five encodings has its path derived with the extension bin (or keeps
\* its explicit path), and the run ends there with the unsupported-encoding
\* error: the check of the item is the last thing the run did, so no
\* directory was made, no credential resolved and no request sent for it.
C22_UnknownEncodingRejected ==
    BulkRun =>
        \A i \in 1..Len(log) :
            log[i].kind = "validate" /\ ~Recognized(EffectiveEncoding(log[i].item)) =>
                /\ log[i].path = GenericPath(log[i].item)
                /\ log[i].outcome = "UnsupportedEncoding"
                /\ i = Len(log)
                /\ \A j \in 1..Len(log) : log[j].item = log[i].item => j = i
                /\ pc = "done"
                /\ result = Some(Err([kind |-> "UnsupportedEncoding",
                      name |-> to_uppercase(trim(EffectiveEncoding(log[i].item)))]))

\* The second item of a run names the encoding flac and has no path of its
\* own: after the first item was written, the run ended at the check of
\* out/en/item_2.bin.
C22_Witness ==
    /\ BulkRun
    /\ Len(cfg.items) = 2
    /\ cfg.items[2].encoding = Some(S_flac)
    /\ cfg.items[2].output = None
    /\ pc = "done"
    /\ Cardinality(SuccessfulWrites(log)) = 1
    /\ log[Len(log)].kind = "validate"
    /\ log[Len(log)].item = 2
    /\ log[Len(log)].path = P_out_en \o <<"/","i","t","e","m","_","2",".","b","i","n">>
    /\ result = Some(Err([kind |-> "UnsupportedEncoding", name |-> <<"F","L","A","C">>]))

----------------------------------------------------------------------------
(* The mode of the run: C23 *)

\* The mode main is to choose, from the command line alone.
ClaimedMode ==
    IF IsSome(args.mcp_mode) THEN "mcp"
    ELSE IF IsSome(args.config_path) THEN "bulk_load"
    ELSE IF args.list_voices THEN "voices"
    ELSE "single"

ModeChosen == pc = "main" => pc' = ClaimedMode

\* The positions of the other modes.
OtherModePcs ==
    {"mcp", "voices", "voices_get", "voices_response", "single", "dispatch",
     "single_print", "secondary", "sec_request", "sec_response", "sec_mkdir", "sec_write"}

\* The errors of the other modes.
OtherModeErrors ==
    {"BuiltWithoutMcp", "MissingArguments", "NotImplemented", "RequiresFeature",
     "MissingCredential"}

\* C23: the server mode comes first, then the bulk mode of a config file,
\* then list-voices, then the single-shot run; a run with a config file (and
\* no server mode) does the bulk synthesis and nothing of the other modes,
\* whatever the provider selector, the list-voices flag and the positional
\* arguments say: every event belongs to an item of the list, every request
\* for audio is a synthesis request to the primary provider, and no write
\* goes to the positional output path unless it is the item's own.
C23_ModePrecedence ==
    /\ [][ModeChosen]_vars
    /\ [](BulkRun =>
            /\ pc \notin OtherModePcs
            /\ \A i \in 1..Len(log) :
                   /\ log[i].item \in 1..Len(cfg.items)
                   /\ log[i].kind \notin {"voices_get", "provider_post"}
                   /\ log[i].kind = "write" =>
                          \E j \in 1..(i - 1) :
                              /\ log[j].kind = "synthesize_post"
                              /\ log[j].item = log[i].item
            /\ (IsSome(result) /\ ~Unwrap(result).ok)
                   => Unwrap(result).error.kind \notin OtherModeErrors
            /\ (IsSome(result) /\ Unwrap(result).ok)
                   => Cardinality(SuccessfulWrites(log)) = Len(cfg.items))

\* A run with a config file, the list-voices flag, a provider that has no
\* adapter and no positional arguments has synthesized both items of its list
\* with the primary provider.
C23_Witness ==
    /\ args.config_path # None
    /\ args.list_voices
    /\ args.provider = "Murf"
    /\ args.text = None /\ args.output = None
    /\ Len(cfg.items) = 2
    /\ pc = "done"
    /\ result = Some(Ok("unit"))
    /\ Cardinality({i \in 1..Len(log) : log[i].kind = "synthesize_post"}) = 2
    /\ Len(stdout) = 2

----------------------------------------------------------------------------
(* The two extension tables: C24 *)

\* The checks of the items that have no output path of their own and whose
\* effective encoding string the run accepts.
DerivedChecks ==
    {i \in 1..Len(log) :
        /\ log[i].kind = "validate"
        /\ cfg.items[log[i].item].output = None
        /\ parse_encoding_from_str(EffectiveEncoding(log[i].item)).ok}

\* C24: in a bulk run, the path derived for an item without an output path
\* of its own passes the extension check for the item's parsed encoding,
\* whenever the effective encoding string is one that parses (in any letter
\* case, with or without white space around it): the extension the derivation
\* picks for the string is the extension of the parsed encoding.
C24_DerivedPathValid ==
    BulkRun =>
        \A i \in DerivedChecks :
            LET s == EffectiveEncoding(log[i].item)
                e == parse_encoding_from_str(s).value
            IN /\ derived_ext(s) = file_extension(e)
               /\ validate_output_extension(log[i].path, e).ok
               /\ log[i].outcome = "ok"

----------------------------------------------------------------------------
(* A synthesis call that fails: C25 *)

\* The errors of the steps of synthesize_to_wav before the write: credential
\* resolution, the transport of the request, the status of the answer, its
\* body, the base64 decoding.
CallFailureKinds ==
    SaFailureKinds \cup {"NoCredentials", "Transport", "HttpStatus", "Json", "Base64"}

\* A run of the primary provider has ended with a synthesis call that failed
\* at one of these steps.
CallFailed ==
    /\ PrimaryRun
    /\ pc = "done"
    /\ IsSome(result)
    /\ ~Unwrap(result).ok
    /\ Unwrap(result).error.kind \in CallFailureKinds

\* The files the calls before the failed one have written, and their
\* directories: the file system as the failed call found it.
FilesBeforeCall == {log[i].path : i \in SuccessfulWrites(log)}
DirsBeforeCall == UNION {DirsOf(q) : q \in FilesBeforeCall}

\* C25: when a synthesis call of the primary provider fails before its write,
\* the file system is as the call found it: no file was created or changed
\* and no directory was made.
C25_FailedCallLeavesFiles ==
    CallFailed =>
        /\ DOMAIN files = FilesBeforeCall
        /\ \A i \in SuccessfulWrites(log) :
               (\A j \in SuccessfulWrites(log) : log[j].path = log[i].path => j <= i)
                   => files[log[i].path] = log[i].bytes
        /\ dirs = DirsBeforeCall

----------------------------------------------------------------------------
(* The order of the checks of a single-shot run: C26 *)

\* The run that is neither the server, nor a bulk run, nor list-voices.
SingleMode ==
    /\ ~IsSome(args.mcp_mode)
    /\ ~IsSome(args.config_path)
    /\ ~args.list_voices

ArgumentsPresent == IsSome(args.text) /\ IsSome(args.output)

\* The positions of the run up to the end of the two checks.
CheckPcs == {"main", "single", "done"}

\* C26: a single-shot run checks that text and output are there, then the
\* extension of the output, then goes to the provider.  A run without one of
\* the two arguments ends with the missing-arguments error; a run with both
\* and an extension that does not match the encoding ends with the extension
\* error, having done nothing else, for every provider: one with an adapter
\* or without, with its credential or without, able to produce the encoding
\* or not.  A run that reaches the provider has passed both checks.
C26_ChecksInOrder ==
    SingleMode =>
        /\ ~ArgumentsPresent =>
               /\ pc \in CheckPcs
               /\ log = <<>>
               /\ pc = "done" => result = Some(Err([kind |-> "MissingArguments"]))
        /\ (ArgumentsPresent /\ ~ExtensionMatches(Unwrap(args.output), args.encoding)) =>
               /\ pc \in CheckPcs
               /\ call = None
               /\ log = <<>>
               /\ FilesUntouched
               /\ pc = "done" =>
                      /\ IsSome(result)
                      /\ ~Unwrap(result).ok
                      /\ Unwrap(result).error.kind \in {"ExtensionMismatch", "ExtensionMissing"}
                      /\ Unwrap(result).error.encoding = api_str(args.encoding)
        /\ pc \notin CheckPcs =>
               /\ ArgumentsPresent
               /\ ExtensionMatches(Unwrap(args.output), args.encoding)

\* MULAW was asked of Gemini, which cannot produce it and whose key is not
\* set, with a path ending in .mp3: the run ended with the extension error.
C26_Witness ==
    /\ SingleMode
    /\ args.provider = "Gemini"
    /\ args.encoding = "Mulaw"
    /\ args.output = Some(P_d_b_mp3)
    /\ env.GEMINI_API_KEY = None
    /\ files # <<>>
    /\ pc = "done"
    /\ result = Some(Err([kind |-> "ExtensionMismatch", got |-> S_mp3,
                          encoding |-> S_MULAW, expected |-> S_wav]))

----------------------------------------------------------------------------
(* No defaults object, and one with nothing set: C27 *)

\* The configuration has no defaults object, or one in which no field is set.
NothingDefaulted == cfg.defaults \in {None, Some(NoDefaultsFields)}

\* What the item at 1-based position n gets from a defaults object in which
\* no field is set.
BareParams(n) == effective_params(cfg.items[n], NoDefaultsFields)
BarePath(n) == output_path(cfg.items[n], NoDefaultsFields, n - 1, BareParams(n).encoding)

\* C27: a bulk run without a defaults object and one with a defaults object
\* that sets nothing give every item the same effective values and the same
\* output path: in both, the path checked for the item and the values handed
\* to the synthesis call are those of the item merged with nothing.
C27_NoDefaultsAsEmptyDefaults ==
    BulkRun /\ NothingDefaulted =>
        /\ \A i \in 1..Len(log) :
               log[i].kind = "validate" => log[i].path = BarePath(log[i].item)
        /\ \A i \in 1..Len(log) :
               log[i].kind = "write" => log[i].path = BarePath(log[i].item)
        /\ call # None =>
               LET p == BareParams(call.item)
               IN /\ call.output = BarePath(call.item)
                  /\ call.language = p.language
                  /\ call.voice = p.voice
                  /\ call.gender = p.gender
                  /\ call.rate = p.rate
                  /\ call.pitch = p.pitch
                  /\ call.sample_rate = p.sample_rate
                  /\ api_str(call.encoding) = to_uppercase(trim(p.encoding))
                  /\ call.volume_gain_db = p.volume_gain_db
                  /\ call.effects_profile_id = p.effects_profile_id
                  /\ call.is_ssml = p.is_ssml

\* A run without a defaults object has written item_1.wav for an item that
\* names neither an encoding nor a path.
C27_Witness ==
    /\ BulkRun
    /\ cfg.defaults = None
    /\ Len(cfg.items) = 1
    /\ cfg.items[1].encoding = None
    /\ cfg.items[1].output = None
    /\ pc = "done"
    /\ result = Some(Ok("unit"))
    /\ DOMAIN files = {<<"i","t","e","m","_","1",".","w","a","v">>}
    /\ call.encoding = "Linear16"
    /\ call.language = "en-US"


====
